---- MODULE Spec2Model ----
(***************************************************************************)
(* A model of the persistence layer of omni-finance (src/regi/omnidb.py):  *)
(* the connection manager OmniDB.sqlite_connect, a generator wrapped by    *)
(* contextlib.contextmanager, and the three batch writers insert_cryptos,  *)
(* insert_market_data and insert_metadata that run their executemany as    *)
(* the body of "with self.sqlite_connect() as cursor"; then the update and *)
(* delete operations, the indicator engine calculate_technical_indicators, *)
(* the signal table and the trend classifier analyze_crypto_bull_bear;     *)
(* then the news writers store_article and store_articles_from_scraper,    *)
(* and the wrapper Crypto.insert_data_into_db of src/regi/crypto.py.       *)
(*                                                                         *)
(* Several operating-system processes share one SQLite file.  The file has *)
(* one write lock; a statement that cannot get it within the connection    *)
(* timeout raises sqlite3.OperationalError("database is locked").          *)
(***************************************************************************)
EXTENDS Integers, Sequences, FiniteSets, TLC

VARIABLES
    store,        \* the committed content of the database file, one set of rows per table
    lock,         \* the process holding the file's write lock, 0 when it is free
    pc,           \* where each process is: "idle", "connect", "body", "except", "done"
    op,           \* the writer a process is in
    batch,        \* the tuples of the batch that executemany has taken so far
    retry_count,  \* sqlite_connect's local retry_count
    conn,         \* sqlite_connect's local conn: a handle number, 0 for None
    cursor,       \* sqlite_connect's local cursor: the handle it belongs to, 0 for None
    nopened,      \* how many handles sqlite3.connect has returned in this invocation
    open,         \* the handles of this invocation on which close() has not been called
    txn,          \* the uncommitted content seen by the process's open transaction, {} when none
    entered,      \* whether the generator has yielded once, so that the with body has started
    exc,          \* the exception travelling into the generator's handlers
    result,       \* what the with statement gave the caller: "ok" or the error raised
    work_runs,    \* how many times the with body was started in this invocation
    met,          \* the sqlite errors this invocation has met, in order: <<place, error>>
    fk_on,        \* the handles of this invocation on which PRAGMA foreign_keys = ON has run
    delay,        \* sqlite_connect's local delay, 0 before the first retry
    news,         \* the locals of the news writer each process is in
    call,         \* the last operation of the analytics client
    df,           \* the DataFrame of the client's last calculate_technical_indicators
    verdict       \* what the client's last analyze_crypto_bull_bear returned

vars == <<store, lock, pc, op, batch, retry_count, conn, cursor, nopened, open,
          txn, entered, exc, result, work_runs, met, fk_on, delay, news, call, df, verdict>>

connVars == <<retry_count, conn, cursor, nopened, open, entered, work_runs, delay>>

\* The state of the analytics client, which the batch writers leave alone.
clientVars == <<call, df, verdict>>

(***************************************************************************)
(* Bounds and domains.                                                     *)
(***************************************************************************)
MaxBatch == 2

\* The news articles in the file, at most.
MaxArticles == 2

\* The articles in a list handed to store_articles_from_scraper, at most.
MaxList == 2

Procs == {1, 2}

Ids == {1, 2}

Timestamps == {1}

Vals == {1, 2}

\* The default of sqlite_connect's parameter; no caller passes another value.
max_retries == 5

(***************************************************************************)
(* Tables.  A row is a tuple: the key columns first, then the value        *)
(* columns.  Columns the statements treat alike are folded into one:       *)
(*   cryptocurrency      <<id, symbol>>         symbol for symbol .. status *)
(*   crypto_market_data  <<crypto_id, timestamp, price_usd>>               *)
(*                                              price_usd for the nine     *)
(*                                              columns of DO UPDATE SET   *)
(*   crypto_metadata     <<crypto_id, description, category>>              *)
(*                                              description for logo_url,  *)
(*                                              website_url, technical_doc *)
(*                                              and description            *)
(***************************************************************************)
Ops == {"insert_cryptos", "insert_market_data", "insert_metadata"}

TableOf(o) ==
    CASE o = "insert_cryptos" -> "cryptocurrency"
      [] o = "insert_market_data" -> "crypto_market_data"
      [] o = "insert_metadata" -> "crypto_metadata"

\* The column list of each INSERT; the VALUES clause has one placeholder per column.
Columns(o) ==
    CASE o = "insert_cryptos" -> <<"id", "symbol">>
      [] o = "insert_market_data" -> <<"crypto_id", "timestamp", "price_usd">>
      [] o = "insert_metadata" -> <<"crypto_id", "description", "category">>

\* The primary key of the instrument table, declared by the schema script config/omni.sql.
cryptocurrency_pk(row) == row[1]

\* INSERT OR IGNORE INTO cryptocurrency: a row whose key is taken is skipped.
InsertOrReplaceCrypto(table, row) ==
    {r \in table : cryptocurrency_pk(r) # cryptocurrency_pk(row)} \cup {row}

InsertOrIgnoreCrypto(table, row) ==
    IF \E r \in table : cryptocurrency_pk(r) = cryptocurrency_pk(row)
    THEN table
    ELSE table \cup {row}

\* INSERT INTO crypto_market_data .. ON CONFLICT(crypto_id, timestamp) DO UPDATE SET
\* every value column = excluded.<column>.
InsertKeepMarket(table, row) ==
    IF \E r \in table : r[1] = row[1] /\ r[2] = row[2]
    THEN table
    ELSE table \cup {row}

UpsertMarket(table, row) ==
    IF \E r \in table : r[1] = row[1] /\ r[2] = row[2]
    THEN {IF r[1] = row[1] /\ r[2] = row[2] THEN [r EXCEPT ![3] = row[3]] ELSE r : r \in table}
    ELSE table \cup {row}

\* INSERT INTO crypto_metadata .. ON CONFLICT(crypto_id) DO UPDATE SET
\* category = excluded.category.
UpsertAllMetadata(table, row) ==
    {r \in table : r[1] # row[1]} \cup {row}

UpsertMetadata(table, row) ==
    IF \E r \in table : r[1] = row[1]
    THEN {IF r[1] = row[1] THEN [r EXCEPT ![3] = row[3]] ELSE r : r \in table}
    ELSE table \cup {row}

\* One parameter tuple of executemany applied to the transaction's content.
ExecuteRow(o, db, row) ==
    CASE o = "insert_cryptos" ->
           [db EXCEPT !.cryptocurrency = InsertOrIgnoreCrypto(@, row)]
      [] o = "insert_market_data" ->
           [db EXCEPT !.crypto_market_data = UpsertMarket(@, row)]
      [] o = "insert_metadata" ->
           [db EXCEPT !.crypto_metadata = UpsertMetadata(@, row)]

\* SELECT * FROM crypto_market_data WHERE crypto_id = ?  (no date range given)
get_market_data(db, crypto_id) == {r \in db.crypto_market_data : r[1] = crypto_id}

\* sqlite3 binds a tuple to the placeholders before it runs the statement: a tuple
\* of another length raises ProgrammingError("Incorrect number of bindings supplied").
BindsOk(o, row) == Len(row) = Len(Columns(o))

(***************************************************************************)
(* Inputs.                                                                 *)
(***************************************************************************)
GoodRows(o) ==
    CASE o = "insert_cryptos" -> {<<i, v>> : i \in Ids, v \in Vals}
      [] o = "insert_market_data" -> {<<i, t, v>> : i \in Ids, t \in Timestamps, v \in Vals}
      [] o = "insert_metadata" -> {<<i, d, c>> : i \in Ids, d \in Vals, c \in Vals}
      [] OTHER -> {}

\* A tuple with a column missing.
BadRow == <<1>>

\* The file after initialize_database: the tables of the schema script exist and are
\* empty; crypto_signals is not part of it, create_signals_table makes it.  tables
\* lists the crypto tables that exist; unique lists the columns declared UNIQUE, the
\* url of an article being one ("Article URL (must be unique)").
EmptyStore ==
    [cryptocurrency |-> {}, crypto_market_data |-> {}, crypto_metadata |-> {},
     crypto_signals |-> {},
     news_sources |-> {}, news_categories |-> {}, news_articles |-> {},
     article_categories |-> {},
     unique |-> {"news_articles.url"},
     tables |-> {"cryptocurrency", "crypto_market_data", "crypto_metadata"}]

\* The locals of a process that is in no news writer.  A result is what the last call
\* gave: nothing yet, a returned value or the exception raised.
NoResult == [kind |-> "none"]

Returned(value) == [kind |-> "returned", value |-> value]

RaisedError(error) == [kind |-> "raised", error |-> error]

NewsIdle ==
    [pc |-> "idle", op |-> "none", title |-> "", url |-> "", source_name |-> "",
     categories |-> <<>>, todo |-> <<>>, source_id |-> 0, article_id |-> 0,
     category_id |-> 0, yahoo |-> <<>>, reuters |-> <<>>, yahoo_done |-> 0,
     reuters_done |-> 0, yahoo_count |-> 0, reuters_count |-> 0, result |-> NoResult]

(***************************************************************************)
(* Errors.  The names stand for the exception and its message:             *)
(*   DatabaseIsLocked    sqlite3.OperationalError("database is locked")    *)
(*   DiskIOError         sqlite3.OperationalError("disk I/O error")        *)
(*   IncorrectBindings   sqlite3.ProgrammingError("Incorrect number of     *)
(*                       bindings supplied")                               *)
(*   ClosedDatabase      sqlite3.ProgrammingError("Cannot operate on a     *)
(*                       closed database.")                                *)
(*   StillLocked         sqlite3.OperationalError("Database still locked   *)
(*                       after 5 retries"), raised after the loop          *)
(*   GeneratorDidntStop  RuntimeError("generator didn't stop after         *)
(*                       throw()"), raised by contextlib                   *)
(***************************************************************************)
IsOperationalError(e) == e \in {"DatabaseIsLocked", "DiskIOError", "StillLocked"}

\* "database is locked" in str(e)
IsLockError(e) == e = "DatabaseIsLocked"

\* The condition of the retry branch of "except sqlite3.OperationalError".
RetryableAnyError(e, rc) == rc < max_retries

RetryableUnbounded(e, rc) == IsOperationalError(e) /\ IsLockError(e)

Retryable(e, rc) == IsOperationalError(e) /\ IsLockError(e) /\ rc < max_retries

\* The while condition.
LoopContinues(rc) == rc <= max_retries

\* The condition under which the finally block closes the cursor and the handle.
FinallyCloses(rc) == rc = max_retries

\* cursor.close() raises ProgrammingError when the cursor's connection is closed.
CursorCloseRaises(cur, opn) == cur # 0 /\ cur \notin opn

\* The file after conn.commit() and after conn.rollback(), t the transaction's content.
AfterCommit(committed, t) == IF t = {} THEN committed ELSE CHOOSE d \in t : TRUE

AfterRollbackKeepsWrites(committed, t) == AfterCommit(committed, t)

AfterRollback(committed, t) == committed

(***************************************************************************)
(* The backoff.  random.random() returns a float in [0.0, 1.0): the draw r *)
(* stands for r / RandomSteps, r in 0 .. RandomSteps - 1.  A delay is an   *)
(* integer number of units of 1 / (2 * RandomSteps) seconds.               *)
(***************************************************************************)
RandomSteps == 4

Draws == 0..(RandomSteps - 1)

\* The default of sqlite_connect's parameter, in seconds; no caller passes another.
retry_delay == 1

\* 0.5 + random.random(), in units of 1 / (2 * RandomSteps).
Jitter(r) == RandomSteps + 2 * r

\* retry_delay * (2 ** (retry_count - 1)) * (0.5 + random.random())
Backoff(rc, r) == retry_delay * (2 ^ (rc - 1)) * Jitter(r)

\* What the transaction of process p reads: its own writes over the committed file.
View(p) == IF txn[p] = {} THEN store ELSE CHOOSE d \in txn[p] : TRUE

Released(p) == IF lock = p THEN 0 ELSE lock

\* conn.execute("PRAGMA foreign_keys = ON") on handle h, on the set of handles that
\* enforce foreign keys; a new handle starts with enforcement off.
PragmaSkipped(on, h) == on

PragmaForeignKeys(on, h) == on \cup {h}

\* No operation of the analytics client yet, and no verdict returned.
NoCall == [name |-> "none"]

NoVerdict == [outlook |-> "none"]

(***************************************************************************)
(* The initial state: an empty database, no process in a writer.           *)
(***************************************************************************)
Init ==
    /\ store = EmptyStore
    /\ lock = 0
    /\ pc = [p \in Procs |-> "idle"]
    /\ op = [p \in Procs |-> "none"]
    /\ batch = [p \in Procs |-> <<>>]
    /\ retry_count = [p \in Procs |-> 0]
    /\ conn = [p \in Procs |-> 0]
    /\ cursor = [p \in Procs |-> 0]
    /\ nopened = [p \in Procs |-> 0]
    /\ open = [p \in Procs |-> {}]
    /\ txn = [p \in Procs |-> {}]
    /\ entered = [p \in Procs |-> FALSE]
    /\ exc = [p \in Procs |-> "none"]
    /\ result = [p \in Procs |-> "none"]
    /\ work_runs = [p \in Procs |-> 0]
    /\ met = [p \in Procs |-> <<>>]
    /\ fk_on = [p \in Procs |-> {}]
    /\ delay = [p \in Procs |-> 0]
    /\ news = [p \in Procs |-> NewsIdle]
    /\ call = NoCall
    /\ df = <<>>
    /\ verdict = NoVerdict

(***************************************************************************)
(* A writer is called: "with self.sqlite_connect() as cursor" creates the   *)
(* generator and __enter__ runs it from its first line.  The batch is      *)
(* recorded tuple by tuple as executemany takes it.                        *)
(***************************************************************************)
Enter(p, o) ==
    /\ pc' = [pc EXCEPT ![p] = "connect"]
    /\ op' = [op EXCEPT ![p] = o]
    /\ batch' = [batch EXCEPT ![p] = <<>>]
    /\ retry_count' = [retry_count EXCEPT ![p] = 0]
    /\ conn' = [conn EXCEPT ![p] = 0]
    /\ cursor' = [cursor EXCEPT ![p] = 0]
    /\ nopened' = [nopened EXCEPT ![p] = 0]
    /\ open' = [open EXCEPT ![p] = {}]
    /\ entered' = [entered EXCEPT ![p] = FALSE]
    /\ exc' = [exc EXCEPT ![p] = "none"]
    /\ result' = [result EXCEPT ![p] = "none"]
    /\ work_runs' = [work_runs EXCEPT ![p] = 0]
    /\ met' = [met EXCEPT ![p] = <<>>]
    /\ fk_on' = [fk_on EXCEPT ![p] = {}]
    /\ delay' = [delay EXCEPT ![p] = 0]

Call(p, o) ==
    /\ pc[p] = "idle"
    /\ Enter(p, o)
    /\ UNCHANGED <<store, lock, txn>>
    /\ UNCHANGED <<clientVars, news>>

(***************************************************************************)
(* One pass of the try block up to the yield: connect, PRAGMA, cursor.     *)
(* The first yield ends __enter__ and the with body starts.  A yield       *)
(* reached while __exit__ is throwing the body's exception into the        *)
(* generator makes contextlib raise RuntimeError and close the generator:  *)
(* GeneratorExit is raised at the yield, no except clause takes it and the *)
(* finally block runs.                                                     *)
(***************************************************************************)
Connect(p) ==
    /\ pc[p] = "connect"
    /\ LET h == nopened[p] + 1
           opn == open[p] \cup {h}
       IN /\ nopened' = [nopened EXCEPT ![p] = h]
          /\ conn' = [conn EXCEPT ![p] = h]
          /\ fk_on' = [fk_on EXCEPT ![p] = PragmaForeignKeys(@, h)]
          /\ cursor' = [cursor EXCEPT ![p] = h]
          /\ IF ~entered[p]
             THEN /\ entered' = [entered EXCEPT ![p] = TRUE]
                  /\ work_runs' = [work_runs EXCEPT ![p] = @ + 1]
                  /\ open' = [open EXCEPT ![p] = opn]
                  /\ pc' = [pc EXCEPT ![p] = "body"]
                  /\ UNCHANGED result
             ELSE /\ open' = [open EXCEPT ![p] =
                          IF FinallyCloses(retry_count[p]) THEN opn \ {h} ELSE opn]
                  /\ result' = [result EXCEPT ![p] = "GeneratorDidntStop"]
                  /\ pc' = [pc EXCEPT ![p] = "done"]
                  /\ UNCHANGED <<entered, work_runs>>
    /\ UNCHANGED <<store, lock, op, batch, retry_count, txn, exc, met, delay>>
    /\ UNCHANGED <<clientVars, news>>

(***************************************************************************)
(* conn.execute("PRAGMA foreign_keys = ON") sits inside the try block: if  *)
(* the file is locked by another process and the statement reports it, the *)
(* OperationalError reaches the handlers with conn set and cursor not.     *)
(***************************************************************************)
ConnectLocked(p) ==
    /\ pc[p] = "connect"
    /\ lock \notin {0, p}
    /\ LET h == nopened[p] + 1
       IN /\ nopened' = [nopened EXCEPT ![p] = h]
          /\ conn' = [conn EXCEPT ![p] = h]
          /\ open' = [open EXCEPT ![p] = @ \cup {h}]
    /\ exc' = [exc EXCEPT ![p] = "DatabaseIsLocked"]
    /\ met' = [met EXCEPT ![p] = Append(@, <<"pragma", "DatabaseIsLocked">>)]
    /\ pc' = [pc EXCEPT ![p] = "except"]
    /\ UNCHANGED <<store, lock, op, batch, retry_count, cursor, txn, entered,
                   result, work_runs, fk_on, delay>>
    /\ UNCHANGED <<clientVars, news>>

(***************************************************************************)
(* The with body: cursor.executemany(query, batch) takes the next tuple    *)
(* of the batch, one of rows, binds it and runs the statement.  The first  *)
(* statement that writes takes the file's write lock, which is held until  *)
(* the transaction ends.                                                   *)
(***************************************************************************)
ExecRow(p, rows) ==
    /\ pc[p] = "body"
    /\ Len(batch[p]) < MaxBatch
    /\ \E row \in rows :
          /\ batch' = [batch EXCEPT ![p] = Append(@, row)]
          /\ IF BindsOk(op[p], row)
             THEN /\ lock \in {0, p}
                  /\ lock' = p
                  /\ txn' = [txn EXCEPT ![p] = {ExecuteRow(op[p], View(p), row)}]
                  /\ UNCHANGED <<pc, exc, met>>
             ELSE /\ exc' = [exc EXCEPT ![p] = "IncorrectBindings"]
                  /\ met' = [met EXCEPT ![p] = Append(@, <<"work", "IncorrectBindings">>)]
                  /\ pc' = [pc EXCEPT ![p] = "except"]
                  /\ UNCHANGED <<lock, txn>>
    /\ UNCHANGED <<store, op, result, fk_on>>
    /\ UNCHANGED connVars
    /\ UNCHANGED <<clientVars, news>>

\* The statement for the next tuple fails with the sqlite error e: the write lock is
\* held by another process for longer than the timeout, or the disk fails.
StatementFails(p, e, rows) ==
    /\ pc[p] = "body"
    /\ Len(batch[p]) < MaxBatch
    /\ IsLockError(e) <=> lock \notin {0, p}
    /\ \E row \in rows :
          /\ BindsOk(op[p], row)
          /\ batch' = [batch EXCEPT ![p] = Append(@, row)]
    /\ exc' = [exc EXCEPT ![p] = e]
    /\ met' = [met EXCEPT ![p] = Append(@, <<"work", e>>)]
    /\ pc' = [pc EXCEPT ![p] = "except"]
    /\ UNCHANGED <<store, lock, op, txn, result, fk_on>>
    /\ UNCHANGED connVars
    /\ UNCHANGED <<clientVars, news>>

(***************************************************************************)
(* The body ends without an exception: __exit__ resumes the generator      *)
(* after the yield, which commits and returns through the finally block.   *)
(***************************************************************************)
Commit(p) ==
    /\ pc[p] = "body"
    /\ store' = AfterCommit(store, txn[p])
    /\ txn' = [txn EXCEPT ![p] = {}]
    /\ lock' = Released(p)
    /\ open' = [open EXCEPT ![p] =
                    IF FinallyCloses(retry_count[p]) /\ conn[p] # 0 THEN @ \ {conn[p]} ELSE @]
    /\ result' = [result EXCEPT ![p] = "ok"]
    /\ pc' = [pc EXCEPT ![p] = "done"]
    /\ UNCHANGED <<op, batch, retry_count, conn, cursor, nopened, entered, exc,
                   work_runs, met, fk_on, delay>>
    /\ UNCHANGED <<clientVars, news>>

(***************************************************************************)
(* The except clauses and the finally block, for the exception exc[p]      *)
(* raised inside the try block or thrown in at the yield by __exit__.      *)
(***************************************************************************)
\* The retry branch: count, compute the delay from the draw r of random.random(),
\* close the cursor, roll back and close the handle, sleep; then the finally block and
\* the while condition.
RetryBranch(p, r) ==
    LET rc == retry_count[p] + 1
        closed == open[p] \ {conn[p]}
    IN /\ retry_count' = [retry_count EXCEPT ![p] = rc]
       /\ delay' = [delay EXCEPT ![p] = Backoff(rc, r)]
       /\ IF CursorCloseRaises(cursor[p], open[p])
          THEN \* cursor.close() of the cleanup raises: neither rollback nor close runs
               /\ result' = [result EXCEPT ![p] = "ClosedDatabase"]
               /\ pc' = [pc EXCEPT ![p] = "done"]
               /\ UNCHANGED <<store, txn, lock, open>>
          ELSE /\ store' = AfterRollback(store, txn[p])
               /\ txn' = [txn EXCEPT ![p] = {}]
               /\ lock' = Released(p)
               /\ open' = [open EXCEPT ![p] = closed]
               /\ IF FinallyCloses(rc) /\ CursorCloseRaises(cursor[p], closed)
                  THEN /\ result' = [result EXCEPT ![p] = "ClosedDatabase"]
                       /\ pc' = [pc EXCEPT ![p] = "done"]
                  ELSE IF LoopContinues(rc)
                       THEN /\ pc' = [pc EXCEPT ![p] = "connect"]
                            /\ UNCHANGED result
                       ELSE /\ result' = [result EXCEPT ![p] = "StillLocked"]
                            /\ pc' = [pc EXCEPT ![p] = "done"]

\* The other branches: roll back and re-raise; then the finally block.
RaiseBranch(p) ==
    /\ store' = AfterRollback(store, txn[p])
    /\ txn' = [txn EXCEPT ![p] = {}]
    /\ lock' = Released(p)
    /\ IF FinallyCloses(retry_count[p]) /\ CursorCloseRaises(cursor[p], open[p])
       THEN /\ result' = [result EXCEPT ![p] = "ClosedDatabase"]
            /\ UNCHANGED open
       ELSE /\ result' = [result EXCEPT ![p] = exc[p]]
            /\ open' = [open EXCEPT ![p] =
                            IF FinallyCloses(retry_count[p]) THEN @ \ {conn[p]} ELSE @]
    /\ pc' = [pc EXCEPT ![p] = "done"]
    /\ UNCHANGED <<retry_count, delay>>

\* The handlers, random.random() returning one of draws.
HandleDrawing(p, draws) ==
    /\ pc[p] = "except"
    /\ IF Retryable(exc[p], retry_count[p])
       THEN \E r \in draws : RetryBranch(p, r)
       ELSE RaiseBranch(p)
    /\ exc' = [exc EXCEPT ![p] = "none"]
    /\ UNCHANGED <<op, batch, conn, cursor, nopened, entered, work_runs, met, fk_on>>
    /\ UNCHANGED <<clientVars, news>>

\* The draw changes the length of the sleep and nothing else: where the delay is not
\* looked at, random.random() returns 0.
Handle(p) == HandleDrawing(p, {0})

\* The writer has returned or raised; the process goes on.
Leave(p) ==
    /\ pc' = [pc EXCEPT ![p] = "idle"]
    /\ op' = [op EXCEPT ![p] = "none"]
    /\ batch' = [batch EXCEPT ![p] = <<>>]
    /\ retry_count' = [retry_count EXCEPT ![p] = 0]
    /\ conn' = [conn EXCEPT ![p] = 0]
    /\ cursor' = [cursor EXCEPT ![p] = 0]
    /\ nopened' = [nopened EXCEPT ![p] = 0]
    /\ open' = [open EXCEPT ![p] = {}]
    /\ entered' = [entered EXCEPT ![p] = FALSE]
    /\ result' = [result EXCEPT ![p] = "none"]
    /\ work_runs' = [work_runs EXCEPT ![p] = 0]
    /\ met' = [met EXCEPT ![p] = <<>>]
    /\ fk_on' = [fk_on EXCEPT ![p] = {}]
    /\ delay' = [delay EXCEPT ![p] = 0]

Return(p) ==
    /\ pc[p] = "done"
    /\ Leave(p)
    /\ UNCHANGED <<store, lock, txn, exc>>
    /\ UNCHANGED <<clientVars, news>>

\* The steps of sqlite_connect and of the with body, the batch drawn from rows.
Progress(p, rows) ==
    \/ Connect(p)
    \/ ConnectLocked(p)
    \/ ExecRow(p, rows)
    \/ StatementFails(p, "DatabaseIsLocked", rows)
    \/ StatementFails(p, "DiskIOError", rows)
    \/ Commit(p)
    \/ Handle(p)

(***************************************************************************)
(* Spec: two processes writing market data to the same file.               *)
(***************************************************************************)
ContendedRows == {<<i, t, v>> : i \in Ids, t \in Timestamps, v \in {1}} \cup {BadRow}

Next ==
    \E p \in Procs :
        \/ Call(p, "insert_market_data")
        \/ Progress(p, ContendedRows)
        \/ Return(p)

Spec == Init /\ [][Next]_vars

(***************************************************************************)
(* SpecBackoff: two processes writing the same observation to the same     *)
(* file, the delay of every retry computed from a draw of random.random(). *)
(***************************************************************************)
BackoffRows == {<<i, t, v>> : i \in {1}, t \in Timestamps, v \in {1}}

NextBackoff ==
    \E p \in Procs :
        \/ Call(p, "insert_market_data")
        \/ Connect(p)
        \/ ConnectLocked(p)
        \/ ExecRow(p, BackoffRows)
        \/ StatementFails(p, "DatabaseIsLocked", BackoffRows)
        \/ Commit(p)
        \/ HandleDrawing(p, Draws)
        \/ Return(p)

SpecBackoff == Init /\ [][NextBackoff]_vars

(***************************************************************************)
(* SpecUpsert: one process calling the three writers in any order; with no *)
(* other process there is no lock contention.                              *)
(***************************************************************************)
Rows(o) == GoodRows(o) \cup {BadRow}

Writer == CHOOSE p \in Procs : \A q \in Procs : p <= q

NextUpsert ==
    \/ \E o \in Ops : Call(Writer, o)
    \/ Connect(Writer)
    \/ ExecRow(Writer, Rows(op[Writer]))
    \/ StatementFails(Writer, "DiskIOError", Rows(op[Writer]))
    \/ Commit(Writer)
    \/ Handle(Writer)
    \/ Return(Writer)

SpecUpsert == Init /\ [][NextUpsert]_vars

\* A running process executes its next statement, and a wait for the write lock ends
\* with the lock or with the timeout.
FairSpec == Spec /\ \A p \in Procs : WF_vars(Progress(p, ContendedRows))

(***************************************************************************)
(* Properties of the connection manager, checked under Spec.               *)
(***************************************************************************)
InWriter(p) == pc[p] \in {"connect", "body", "except"}

OnlyLocksMet(p) == \A k \in 1..Len(met[p]) : IsLockError(met[p][k][2])

\* The k-th error of an invocation is met with retry_count = k - 1: every error
\* before it was retried.
WorkLockedBelowBudget(p, k) ==
    /\ k \in 1..Len(met[p])
    /\ met[p][k] = <<"work", "DatabaseIsLocked">>
    /\ k - 1 < max_retries

\* C1: when the with body fails with "database is locked" and fewer than max_retries
\* retries have been made, the body is executed again on a fresh handle, and if
\* nothing fails afterwards the writer returns normally.
C1_LockedWorkIsRunAgain ==
    \A p \in Procs : \A k \in 1..Len(met[p]) :
        (pc[p] = "done" /\ WorkLockedBelowBudget(p, k))
            => /\ work_runs[p] >= 2
               /\ (k = Len(met[p]) => result[p] = "ok")

\* C2: when an invocation of sqlite_connect has finished, every handle it opened
\* has been closed.
C2_HandlesClosedOnExit ==
    \A p \in Procs : pc[p] = "done" => open[p] = {}

\* C3: a failure of the with body that is not a lock error is not retried: the step
\* that handles it ends the invocation with that same error, opens no handle, leaves
\* retry_count and the committed file as they were, and ends the transaction.
C3_NonTransientNotRetried ==
    [][\A p \in Procs :
          (pc[p] = "except" /\ ~IsLockError(exc[p]) /\ pc'[p] # "except")
              => /\ pc'[p] = "done"
                 /\ result'[p] = exc[p]
                 /\ nopened'[p] = nopened[p]
                 /\ retry_count'[p] = retry_count[p]
                 /\ store' = store
                 /\ txn'[p] = {}
                 /\ lock' # p]_vars

\* A non-transient failure after a tuple of the batch was written, reported as it was.
C3_Witness ==
    \E p \in Procs :
        /\ pc[p] = "done"
        /\ result[p] \in {"DiskIOError", "IncorrectBindings"}
        /\ Len(batch[p]) >= 2
        /\ nopened[p] = 1

\* The error of lines 122-124, and the driver's own lock error.
IsLockTimeoutError(r) == r \in {"StillLocked", "DatabaseIsLocked"}

\* C4: an invocation that fails having met nothing but lock errors fails only once
\* max_retries retries have been made, and with a lock-timeout error.
C4_LockFailureIsLockTimeout ==
    \A p \in Procs :
        (pc[p] = "done" /\ result[p] # "ok" /\ OnlyLocksMet(p))
            => /\ retry_count[p] = max_retries
               /\ IsLockTimeoutError(result[p])

\* C5: retry_count never exceeds max_retries, an invocation opens at most
\* max_retries + 1 handles, and every invocation ends.
C5_RetryIsBounded ==
    /\ [](\A p \in Procs : retry_count[p] <= max_retries /\ nopened[p] <= max_retries + 1)
    /\ \A p \in Procs : InWriter(p) ~> (pc[p] = "done")

\* An invocation that met contention on every attempt and has ended.
C5_Witness ==
    \E p \in Procs :
        /\ pc[p] = "done"
        /\ retry_count[p] = max_retries
        /\ nopened[p] = max_retries + 1
        /\ Len(met[p]) = max_retries + 1

MarketKeys(b) == {<<b[k][1], b[k][2]>> : k \in {j \in 1..Len(b) : BindsOk("insert_market_data", b[j])}}

AllBind(b) == \A k \in 1..Len(b) : BindsOk("insert_market_data", b[k])

\* C6: two processes that call insert_market_data on disjoint key sets, and meet no
\* error but lock contention, both return normally and every row of both batches is
\* in the table.
C6_ConcurrentWritersBothSucceed ==
    ( /\ \A p \in Procs : pc[p] = "done" /\ AllBind(batch[p]) /\ OnlyLocksMet(p)
      /\ \A p, q \in Procs : p # q => MarketKeys(batch[p]) \cap MarketKeys(batch[q]) = {} )
        => \A p \in Procs :
              /\ result[p] = "ok"
              /\ \A k \in 1..Len(batch[p]) : batch[p][k] \in store.crypto_market_data

(***************************************************************************)
(* Properties of the three writers, checked under SpecUpsert.              *)
(***************************************************************************)
\* The step in which writer o of process p commits and returns normally.
Commits(p, o) ==
    pc[p] = "body" /\ pc'[p] = "done" /\ result'[p] = "ok" /\ op[p] = o

\* Tuple k is the first, the last, of batch b with its key, the key being the first
\* n columns.
SameKey(r1, r2, n) == \A c \in 1..n : r1[c] = r2[c]

FirstOfKey(b, k, n) == \A j \in 1..(k - 1) : ~SameKey(b[j], b[k], n)

LastOfKey(b, k, n) == \A j \in (k + 1)..Len(b) : ~SameKey(b[j], b[k], n)

InBatch(b, r, n) == \E k \in 1..Len(b) : SameKey(b[k], r, n)

\* C7: after insert_market_data has returned, a read of any key of the batch gives
\* exactly the last tuple of the batch with that key, whether the key was new, stored
\* or repeated in the batch; rows with other keys, and the other tables, are unchanged.
C7_LastWriteWins ==
    [][\A p \in Procs :
          Commits(p, "insert_market_data")
              => /\ \A k \in 1..Len(batch[p]) :
                       LastOfKey(batch[p], k, 2)
                           => {r \in get_market_data(store', batch[p][k][1]) :
                                   r[2] = batch[p][k][2]} = {batch[p][k]}
                 /\ \A r \in store.crypto_market_data \cup store'.crypto_market_data :
                       ~InBatch(batch[p], r, 2)
                           => (r \in store.crypto_market_data
                                   <=> r \in store'.crypto_market_data)
                 /\ store'.cryptocurrency = store.cryptocurrency
                 /\ store'.crypto_metadata = store.crypto_metadata]_vars

\* A returned batch wrote one key twice with two values: the second is stored.
C7_Witness ==
    \E p \in Procs :
        /\ pc[p] = "done" /\ result[p] = "ok" /\ op[p] = "insert_market_data"
        /\ Len(batch[p]) = 2
        /\ SameKey(batch[p][1], batch[p][2], 2)
        /\ batch[p][1][3] # batch[p][2][3]
        /\ batch[p][2] \in store.crypto_market_data
        /\ batch[p][1] \notin store.crypto_market_data

\* C8: insert_cryptos never overwrites an instrument: no step changes or removes a
\* stored row, and a batch adds, for each id that has no row, the first tuple of the
\* batch with that id.
C8_InstrumentsNeverOverwritten ==
    [][/\ \A r \in store.cryptocurrency : r \in store'.cryptocurrency
       /\ \A p \in Procs :
             Commits(p, "insert_cryptos")
                 => store'.cryptocurrency =
                        store.cryptocurrency \cup
                            {batch[p][k] : k \in {j \in 1..Len(batch[p]) :
                                 /\ FirstOfKey(batch[p], j, 1)
                                 /\ \A r \in store.cryptocurrency : r[1] # batch[p][j][1]}}]_vars

\* A tuple of a returned batch whose id was taken: the stored row differs from it.
C8_Witness ==
    \E p \in Procs :
        /\ pc[p] = "done" /\ result[p] = "ok" /\ op[p] = "insert_cryptos"
        /\ \E k \in 1..Len(batch[p]) : \E r \in store.cryptocurrency :
              r[1] = batch[p][k][1] /\ r[2] # batch[p][k][2]

\* The indexes of the tuples of batch b written for crypto_id i.
TuplesFor(b, i) == {k \in 1..Len(b) : b[k][1] = i}

Min(S) == CHOOSE x \in S : \A y \in S : x <= y

Max(S) == CHOOSE x \in S : \A y \in S : x >= y

\* C9: insert_metadata on a crypto_id that has a row changes only the category of
\* that row, to the category written last; on an id without a row it inserts the
\* tuple (a later tuple of the batch with that id then changes its category only);
\* all other rows, and the other tables, are unchanged.
C9_MetadataUpdatesCategoryOnly ==
    [][\A p \in Procs :
          Commits(p, "insert_metadata")
              => /\ \A i \in Ids :
                       LET old == {r \in store.crypto_metadata : r[1] = i}
                           new == {r \in store'.crypto_metadata : r[1] = i}
                           ks == TuplesFor(batch[p], i)
                       IN IF ks = {} THEN new = old
                          ELSE IF old # {}
                               THEN new = {<<i, r[2], batch[p][Max(ks)][3]>> : r \in old}
                               ELSE new = {<<i, batch[p][Min(ks)][2], batch[p][Max(ks)][3]>>}
                 /\ store'.cryptocurrency = store.cryptocurrency
                 /\ store'.crypto_market_data = store.crypto_market_data]_vars

\* A returned batch wrote a tuple over a stored row: the row has the tuple's
\* category and not its description.
C9_Witness ==
    \E p \in Procs :
        /\ pc[p] = "done" /\ result[p] = "ok" /\ op[p] = "insert_metadata"
        /\ Len(batch[p]) = 1
        /\ \E r \in store.crypto_metadata :
              /\ r[1] = batch[p][1][1]
              /\ r[2] # batch[p][1][2]
              /\ r[3] = batch[p][1][3]

\* C10: a batch is applied all or nothing: the committed file changes only in the
\* step in which a writer commits its whole batch, and a writer that ends with an
\* error leaves the file as it was and no transaction open.
C10_BatchAllOrNothing ==
    [][\A p \in Procs :
          /\ (pc[p] # "done" /\ pc'[p] = "done" /\ result'[p] # "ok")
                => (store' = store /\ txn'[p] = {})
          /\ (store' # store /\ pc'[p] # pc[p])
                => /\ Commits(p, op[p])
                   /\ \A k \in 1..Len(batch[p]) : BindsOk(op[p], batch[p][k])]_vars

\* A writer has failed on a tuple after it had run an earlier tuple of the batch,
\* and the earlier tuple is not in the table.
C10_Witness ==
    \E p \in Procs : \E o \in Ops :
        /\ pc[p] = "done" /\ op[p] = o /\ result[p] = "IncorrectBindings"
        /\ Len(batch[p]) >= 2
        /\ BindsOk(o, batch[p][1])
        /\ \A r \in store[TableOf(o)] : r[1] # batch[p][1][1]

(***************************************************************************)
(* SpecSchema: processes that create the signal table while others write   *)
(* market data to the same file.  create_signals_table runs one statement, *)
(* CREATE TABLE IF NOT EXISTS crypto_signals, as the body of "with         *)
(* self.sqlite_connect() as cursor".  sqlite3 opens no transaction before  *)
(* a CREATE: the statement takes the write lock, changes the schema and    *)
(* commits by itself.  When the table exists the statement changes nothing *)
(* and needs no write lock.                                                *)
(***************************************************************************)
CreateStatement == <<"CREATE TABLE IF NOT EXISTS crypto_signals">>

InCreate(p) == op[p] = "create_signals_table" /\ pc[p] = "body"

ExecCreate(p) ==
    /\ InCreate(p)
    /\ batch[p] = <<>>
    /\ "crypto_signals" \in store.tables \/ lock = 0
    /\ batch' = [batch EXCEPT ![p] = <<CreateStatement>>]
    /\ store' = [store EXCEPT !.tables = @ \cup {"crypto_signals"}]
    /\ UNCHANGED <<lock, pc, op, txn, exc, result, met, fk_on>>
    /\ UNCHANGED connVars
    /\ UNCHANGED <<clientVars, news>>

\* The write lock is held by another process for longer than the timeout.
CreateFails(p) ==
    /\ InCreate(p)
    /\ batch[p] = <<>>
    /\ "crypto_signals" \notin store.tables
    /\ lock \notin {0, p}
    /\ batch' = [batch EXCEPT ![p] = <<CreateStatement>>]
    /\ exc' = [exc EXCEPT ![p] = "DatabaseIsLocked"]
    /\ met' = [met EXCEPT ![p] = Append(@, <<"work", "DatabaseIsLocked">>)]
    /\ pc' = [pc EXCEPT ![p] = "except"]
    /\ UNCHANGED <<store, lock, op, txn, result, fk_on>>
    /\ UNCHANGED connVars
    /\ UNCHANGED <<clientVars, news>>

\* The body of create_signals_table ends after its statement.
CommitCreate(p) ==
    /\ InCreate(p)
    /\ batch[p] # <<>>
    /\ Commit(p)

InsertProgress(p) ==
    /\ op[p] = "insert_market_data"
    /\ Progress(p, ContendedRows)

NextSchema ==
    \E p \in Procs :
        \/ Call(p, "insert_market_data")
        \/ Call(p, "create_signals_table")
        \/ InsertProgress(p)
        \/ op[p] = "create_signals_table" /\ Connect(p)
        \/ ExecCreate(p)
        \/ CreateFails(p)
        \/ CommitCreate(p)
        \/ op[p] = "create_signals_table" /\ Handle(p)
        \/ Return(p)

SpecSchema == Init /\ [][NextSchema]_vars

(***************************************************************************)
(* The indicator engine: calculate_technical_indicators.                   *)
(*                                                                         *)
(* A timestamp is stored as TEXT.  The text "YYYY-MM-DD HH:MM:SS" is the   *)
(* pair <<day, second of the day>> and the text "YYYY-MM-DD" the tuple     *)
(* <<day>>; pd.to_datetime gives the instant <<day, second>>.              *)
(*                                                                         *)
(* Prices are integers and the arithmetic is exact.  A quotient is kept as *)
(* its numerator and denominator:                                          *)
(*   daily_return, ma_7d   [num, den]        num / den                     *)
(*   std_7d                [sq_num, sq_den]  sqrt(sq_num / sq_den)         *)
(*   RSI                   [num, den, eps]   num / (den + eps * 1e-9)      *)
(* NULL is NaN in the frame and NULL in the file.                          *)
(***************************************************************************)
NULL == [null |-> TRUE]

\* window_length of the RSI, and the window of the two rolling(window=7) columns.
window_length == 14

rolling_window == 7

\* 1 / 1e-9, the constant added to loss.
EpsInv == 1000000000

to_datetime(text) == IF Len(text) = 1 THEN <<text[1], 0>> ELSE text

InstantLess(a, b) == a[1] < b[1] \/ (a[1] = b[1] /\ a[2] < b[2])

\* astype(str) of a datetime column: the date alone when every value of the column is
\* at midnight, date and time otherwise.
astype_str(instant, column) ==
    IF \A i \in column : i[2] = 0 THEN <<instant[1]>> ELSE instant

\* The rows of a SELECT as a sequence: SQLite returns them in the order of the index or
\* of the rowids, here ascending or descending by timestamp text.
RECURSIVE Ascending(_)
Ascending(S) ==
    IF S = {}
    THEN <<>>
    ELSE LET m == CHOOSE r \in S :
                      \A q \in S : ~InstantLess(to_datetime(q[2]), to_datetime(r[2]))
         IN <<m>> \o Ascending(S \ {m})

Reverse(s) == [i \in 1..Len(s) |-> s[Len(s) + 1 - i]]

FetchOrders == {"ascending", "descending"}

fetchall(S, order) == IF order = "ascending" THEN Ascending(S) ELSE Reverse(Ascending(S))

\* df.sort_values(by='timestamp') after pd.to_datetime: ascending by instant.
KeepFetchOrder(rows) == rows

sort_values(rows) ==
    SortSeq(rows, LAMBDA a, b : InstantLess(to_datetime(a[2]), to_datetime(b[2])))

RECURSIVE Sum(_, _, _)
Sum(X, from, to) == IF from > to THEN 0 ELSE X[to] + Sum(X, from, to - 1)

\* price_usd.pct_change() * 100: NaN on the first row and where 0 is divided by 0.
pct_change(P, i) ==
    IF i = 1 \/ (P[i - 1] = 0 /\ P[i] = 0)
    THEN NULL
    ELSE [num |-> 100 * (P[i] - P[i - 1]), den |-> P[i - 1]]

\* rolling(window=w).mean() and .std(): NaN until the window holds w values.
RollingDefinedLate(i, w) == i > w

RollingDefined(i, w) == i >= w

rolling_mean(X, i, w) ==
    IF RollingDefined(i, w) THEN [num |-> Sum(X, i - w + 1, i), den |-> w] ELSE NULL

rolling_std(X, i, w) ==
    IF RollingDefined(i, w)
    THEN LET s == Sum(X, i - w + 1, i)
             q == Sum([k \in 1..Len(X) |-> X[k] * X[k]], i - w + 1, i)
         IN [sq_num |-> w * q - s * s, sq_den |-> w * (w - 1)]
    ELSE NULL

\* delta = price_usd.diff(), NaN on the first row; delta.where(delta > 0, 0) and
\* -delta.where(delta < 0, 0): the NaN fails both comparisons and becomes 0.
gains(P) ==
    [i \in 1..Len(P) |-> IF i > 1 /\ P[i] - P[i - 1] > 0 THEN P[i] - P[i - 1] ELSE 0]

losses(P) ==
    [i \in 1..Len(P) |-> IF i > 1 /\ P[i] - P[i - 1] < 0 THEN P[i - 1] - P[i] ELSE 0]

\* 100 - (100 / (1 + (gain / (loss + 1e-9)))) with gain = G / 14 and loss = L / 14 the
\* rolling means, which is 100 * G / (G + L + 14 * 1e-9).
RSIOfLosses(P, i) ==
    IF RollingDefined(i, window_length)
    THEN LET G == Sum(losses(P), i - window_length + 1, i)
             L == Sum(gains(P), i - window_length + 1, i)
         IN [num |-> 100 * G, den |-> G + L, eps |-> window_length]
    ELSE NULL

RSI(P, i) ==
    IF RollingDefined(i, window_length)
    THEN LET G == Sum(gains(P), i - window_length + 1, i)
             L == Sum(losses(P), i - window_length + 1, i)
         IN [num |-> 100 * G, den |-> G + L, eps |-> window_length]
    ELSE NULL

\* r > k and r < k for r = [num, den, eps] and an integer k; a comparison with NaN is
\* false.  num - k * den is an integer, to be compared with k * eps / EpsInv.
Greater(r, k) == r # NULL /\ r.num - k * r.den > (k * r.eps) \div EpsInv

Less(r, k) == r # NULL /\ r.num - k * r.den <= (k * r.eps - 1) \div EpsInv

\* np.select([RSI > 70, RSI < 30], ['Bearish Signal', 'Bullish Signal'],
\*           default='Neutral/No signal')
SelectInclusive(rsi) ==
    IF rsi # NULL /\ ~Less(rsi, 70) THEN "Bearish Signal"
    ELSE IF rsi # NULL /\ ~Greater(rsi, 30) THEN "Bullish Signal"
    ELSE "Neutral/No signal"

np_select(rsi) ==
    IF Greater(rsi, 70) THEN "Bearish Signal"
    ELSE IF Less(rsi, 30) THEN "Bullish Signal"
    ELSE "Neutral/No signal"

\* The frame: one record per observation of the instrument, in the order given.
Frame(rows) ==
    LET P == [i \in 1..Len(rows) |-> rows[i][3]]
    IN [i \in 1..Len(rows) |->
           [crypto_id |-> rows[i][1],
            timestamp |-> to_datetime(rows[i][2]),
            price_usd |-> P[i],
            daily_return |-> pct_change(P, i),
            ma_7d |-> rolling_mean(P, i, rolling_window),
            std_7d |-> rolling_std(P, i, rolling_window),
            RSI |-> RSI(P, i),
            signal |-> np_select(RSI(P, i))]]

\* start_date = None or end_date = None.
None == <<>>

\* The order of two timestamp texts as SQLite compares TEXT: byte by byte, a prefix
\* before the longer text.
TextLess(a, b) ==
    \/ a[1] < b[1]
    \/ a[1] = b[1] /\ Len(a) < Len(b)
    \/ a[1] = b[1] /\ Len(a) = 2 /\ Len(b) = 2 /\ a[2] < b[2]

\* get_market_data with its optional bounds: AND timestamp BETWEEN ? AND ? is added
\* if start_date and end_date.
get_market_data_between(db, crypto_id, start_date, end_date) ==
    IF start_date # None /\ end_date # None
    THEN {r \in get_market_data(db, crypto_id) :
              ~TextLess(r[2], start_date) /\ ~TextLess(end_date, r[2])}
    ELSE get_market_data(db, crypto_id)

\* get_market_data, then the columns; an empty frame is returned as it is.
calculate_technical_indicators(db, crypto_id, start_date, end_date, order) ==
    Frame(sort_values(fetchall(
        get_market_data_between(db, crypto_id, start_date, end_date), order)))

(***************************************************************************)
(* The signal store and the trend classifier.  A row of crypto_signals is  *)
(*   <<crypto_id, timestamp, daily_return, ma_7d, std_7d, RSI, signal>>    *)
(* with the primary key (crypto_id, timestamp).                            *)
(***************************************************************************)
\* CREATE TABLE IF NOT EXISTS crypto_signals.
create_signals_table(db) == [db EXCEPT !.tables = @ \cup {"crypto_signals"}]

\* INSERT OR REPLACE INTO crypto_signals: a row with the same key is replaced.
InsertSignalKeepBoth(table, row) == table \cup {row}

InsertOrReplaceSignal(table, row) ==
    {r \in table : ~(r[1] = row[1] /\ r[2] = row[2])} \cup {row}

\* indicators_df[[...]].to_records(): the seven columns, the timestamp column
\* converted back to text.  The values are taken to be of types sqlite3 binds: float64
\* and str, crypto_id being a TEXT column as it is in crypto_signals.
to_records(frame) ==
    LET column == {frame[i].timestamp : i \in 1..Len(frame)}
    IN [i \in 1..Len(frame) |->
           <<frame[i].crypto_id, astype_str(frame[i].timestamp, column),
             frame[i].daily_return, frame[i].ma_7d, frame[i].std_7d, frame[i].RSI,
             frame[i].signal>>]

RECURSIVE executemany(_, _)
executemany(table, records) ==
    IF records = <<>>
    THEN table
    ELSE executemany(InsertOrReplaceSignal(table, Head(records)), Tail(records))

SaveAlwaysCreates(db, frame) ==
    [create_signals_table(db) EXCEPT !.crypto_signals = executemany(@, to_records(frame))]

save_indicators_to_db(db, frame) ==
    IF frame = <<>>
    THEN db
    ELSE [create_signals_table(db) EXCEPT
              !.crypto_signals = executemany(@, to_records(frame))]

\* The verdicts: the text returned, and the instrument it names.
NoData == [outlook |-> "No data available"]

\* latest_row = df.iloc[-1] and the if/elif/else on its signal.
Verdict(frame, crypto_id) ==
    [outlook |-> CASE frame[Len(frame)].signal = "Bullish Signal" -> "Bullish"
                   [] frame[Len(frame)].signal = "Bearish Signal" -> "Bearish"
                   [] OTHER -> "Neutral",
     crypto_id |-> crypto_id]

\* analyze_crypto_bull_bear: the file, the frame and the verdict it ends with.
analyze_crypto_bull_bear(db, crypto_id, start_date, end_date, order) ==
    LET frame == calculate_technical_indicators(db, crypto_id, start_date, end_date, order)
    IN IF frame = <<>>
       THEN [db |-> db, df |-> frame, verdict |-> NoData]
       ELSE [db |-> save_indicators_to_db(db, frame), df |-> frame,
             verdict |-> Verdict(frame, crypto_id)]

\* UPDATE crypto_market_data SET price_usd = ? WHERE crypto_id = ? AND timestamp = ?
update_market_data(db, crypto_id, timestamp, new_price) ==
    [db EXCEPT !.crypto_market_data =
         {IF r[1] = crypto_id /\ r[2] = timestamp THEN [r EXCEPT ![3] = new_price] ELSE r :
              r \in @}]

\* The tables, other than crypto_market_data, whose crypto_id the schema script
\* config/omni.sql declares as a foreign key to cryptocurrency(id): none, the purge
\* keeps the metadata row of the instrument it removes.
ReferencingTables == {}

\* DELETE FROM crypto_market_data WHERE crypto_id = ?, then
\* DELETE FROM cryptocurrency WHERE id = ?, in one transaction.  With foreign keys on,
\* a row that still references the instrument makes the second DELETE raise
\* IntegrityError and the transaction is rolled back.
DeleteCryptoAndMetadata(db, crypto_id) ==
    [db EXCEPT !.crypto_market_data = {r \in @ : r[1] # crypto_id},
               !.cryptocurrency = {r \in @ : cryptocurrency_pk(r) # crypto_id},
               !.crypto_metadata = {r \in @ : r[1] # crypto_id}]

delete_crypto(db, crypto_id) ==
    IF \E t \in ReferencingTables : \E r \in db[t] : r[1] = crypto_id
    THEN db
    ELSE [db EXCEPT !.crypto_market_data = {r \in @ : r[1] # crypto_id},
                    !.cryptocurrency = {r \in @ : cryptocurrency_pk(r) # crypto_id}]

\* DELETE FROM crypto_market_data WHERE timestamp < ?
delete_old_market_data(db, cutoff_date) ==
    [db EXCEPT !.crypto_market_data = {r \in @ : ~TextLess(r[2], cutoff_date)}]

(***************************************************************************)
(* The analytics client: one process that calls the operations of OmniDB   *)
(* one after the other.  With no other process on the file every unit of   *)
(* work of a call commits, so a call is one step.  call records the        *)
(* operation; df and verdict are the frame and the verdict of the call.    *)
(***************************************************************************)
procVars == <<lock, pc, op, batch, retry_count, conn, cursor, nopened, open, txn,
              entered, exc, result, work_runs, met, fk_on, delay, news>>

\* A writer called with a batch of one tuple.
InsertRow(o, row) ==
    /\ store' = ExecuteRow(o, store, row)
    /\ call' = [name |-> o]
    /\ df' = <<>>
    /\ verdict' = NoVerdict
    /\ UNCHANGED procVars

UpdateMarketData(crypto_id, timestamp, new_price) ==
    /\ store' = update_market_data(store, crypto_id, timestamp, new_price)
    /\ call' = [name |-> "update_market_data"]
    /\ df' = <<>>
    /\ verdict' = NoVerdict
    /\ UNCHANGED procVars

DeleteCrypto(crypto_id) ==
    /\ store' = delete_crypto(store, crypto_id)
    /\ call' = [name |-> "delete_crypto"]
    /\ df' = <<>>
    /\ verdict' = NoVerdict
    /\ UNCHANGED procVars

DeleteOldMarketData(cutoff_date) ==
    /\ store' = delete_old_market_data(store, cutoff_date)
    /\ call' = [name |-> "delete_old_market_data"]
    /\ df' = <<>>
    /\ verdict' = NoVerdict
    /\ UNCHANGED procVars

\* calculate_technical_indicators called on its own: it reads, and returns the frame.
Calculate(crypto_id, start_date, end_date) ==
    /\ \E order \in FetchOrders :
          df' = calculate_technical_indicators(store, crypto_id, start_date, end_date, order)
    /\ call' = [name |-> "calculate_technical_indicators"]
    /\ verdict' = NoVerdict
    /\ UNCHANGED store
    /\ UNCHANGED procVars

\* save_indicators_to_db called with an empty DataFrame.
SaveEmpty ==
    /\ store' = save_indicators_to_db(store, <<>>)
    /\ call' = [name |-> "save_indicators_to_db"]
    /\ df' = <<>>
    /\ verdict' = NoVerdict
    /\ UNCHANGED procVars

Analyze(crypto_id, start_date, end_date) ==
    /\ \E order \in FetchOrders :
          LET r == analyze_crypto_bull_bear(store, crypto_id, start_date, end_date, order)
          IN /\ store' = r.db
             /\ df' = r.df
             /\ verdict' = r.verdict
    /\ call' = [name |-> "analyze_crypto_bull_bear"]
    /\ UNCHANGED procVars

(***************************************************************************)
(* SpecSignals: the client working on a few observations of two            *)
(* instruments, at midnight and during the day.                            *)
(***************************************************************************)
Days == {1, 2}

Seconds == {0, 1}

\* The first day at midnight, the second day during the day.
ObsTexts == {<<d, sec>> : d \in Days, sec \in Seconds} \ {<<1, 1>>, <<2, 0>>}

\* The values of start_date and end_date.
Bounds == {None, <<2, 0>>, <<2, 1>>}

\* The instrument under analysis, and another one with a single observation.
Analysed == CHOOSE i \in Ids : \A j \in Ids : i <= j

ClientRows(o) ==
    CASE o = "insert_cryptos" -> {<<i, 1>> : i \in Ids}
      [] o = "insert_market_data" ->
           {<<i, t, 1>> : i \in Ids, t \in ObsTexts} \ 
           {<<i, t, 1>> : i \in Ids \ {Analysed}, t \in ObsTexts \ {<<2, 1>>}}
      [] o = "insert_metadata" -> {<<i, 1, 1>> : i \in Ids}

NextSignals ==
    \/ \E row \in ClientRows("insert_market_data") : InsertRow("insert_market_data", row)
    \/ \E t \in ObsTexts, v \in Vals : UpdateMarketData(Analysed, t, v)
    \/ \E i \in Ids : DeleteCrypto(i)
    \/ \E t \in ObsTexts : DeleteOldMarketData(t)
    \/ \E i \in Ids, a \in Bounds, b \in Bounds : Calculate(i, a, b)
    \/ SaveEmpty
    \/ \E i \in Ids, a \in Bounds, b \in Bounds : Analyze(i, a, b)

SpecSignals == Init /\ [][NextSignals]_vars

(***************************************************************************)
(* SpecSeries: the client loads a price series for one instrument, one     *)
(* observation a day, and then classifies it.  The series starts at one of *)
(* StartPrices, moves by one of Deltas a day and changes direction at most *)
(* MaxTurns times.                                                         *)
(***************************************************************************)
MaxObs == 16

MaxTurns == 1

StartPrices == {1, 20}

Deltas == {-1, 0, 1}

\* The timestamp text of the n-th day, taken during the day.
SeriesText(n) == <<n, 1>>

\* The prices of the instrument in the file, by day.
Series(db) ==
    LET rows == Ascending(get_market_data(db, Analysed))
    IN [i \in 1..Len(rows) |-> rows[i][3]]

Turns(P) == Cardinality({i \in 3..Len(P) : P[i] - P[i - 1] # P[i - 1] - P[i - 2]})

NextPrices(P) ==
    IF P = <<>>
    THEN StartPrices
    ELSE {p \in {P[Len(P)] + d : d \in Deltas} : p >= 0 /\ Turns(Append(P, p)) <= MaxTurns}

\* insert_market_data with the observation of the next day, while the series is loaded.
Observe(price) ==
    /\ call.name \in {"none", "insert_market_data"}
    /\ Len(Series(store)) < MaxObs
    /\ InsertRow("insert_market_data",
                 <<Analysed, SeriesText(Len(Series(store)) + 1), price>>)

NextSeries ==
    \/ \E price \in NextPrices(Series(store)) : Observe(price)
    \/ Analyze(Analysed, None, None)

SpecSeries == Init /\ [][NextSeries]_vars

(***************************************************************************)
(* SpecPurge: the client fills the three tables and purges instruments.    *)
(***************************************************************************)
NextPurge ==
    \/ \E row \in ClientRows("insert_cryptos") : InsertRow("insert_cryptos", row)
    \/ \E row \in ClientRows("insert_market_data") : InsertRow("insert_market_data", row)
    \/ \E row \in ClientRows("insert_metadata") : InsertRow("insert_metadata", row)
    \/ \E i \in Ids : DeleteCrypto(i)

SpecPurge == Init /\ [][NextPurge]_vars

(***************************************************************************)
(* SpecSelect: the signal column computed for RSI columns drawn from the   *)
(* values around the two thresholds, and for the frames of SpecSeries: the *)
(* client starts with an RSI column at hand and either labels it or loads  *)
(* and classifies a series.                                                *)
(***************************************************************************)
MaxColumn == 2

\* An RSI that is exactly the number n.
Exactly(n) == [num |-> n, den |-> 1, eps |-> 0]

\* NaN, the numbers at and next to the thresholds, and the RSI of gain sums 3 and 7
\* out of 10, which the 1e-9 puts just below 30 and 70.
RsiValues ==
    {NULL} \cup {Exactly(n) : n \in {0, 29, 30, 31, 69, 70, 71, 100}}
           \cup {[num |-> 100 * G, den |-> 10, eps |-> window_length] : G \in {3, 7}}

RsiColumns ==
    UNION {[1..n -> RsiValues] : n \in 0..MaxColumn}

InitSelect ==
    /\ store = EmptyStore
    /\ lock = 0
    /\ pc = [p \in Procs |-> "idle"]
    /\ op = [p \in Procs |-> "none"]
    /\ batch = [p \in Procs |-> <<>>]
    /\ retry_count = [p \in Procs |-> 0]
    /\ conn = [p \in Procs |-> 0]
    /\ cursor = [p \in Procs |-> 0]
    /\ nopened = [p \in Procs |-> 0]
    /\ open = [p \in Procs |-> {}]
    /\ txn = [p \in Procs |-> {}]
    /\ entered = [p \in Procs |-> FALSE]
    /\ exc = [p \in Procs |-> "none"]
    /\ result = [p \in Procs |-> "none"]
    /\ work_runs = [p \in Procs |-> 0]
    /\ met = [p \in Procs |-> <<>>]
    /\ fk_on = [p \in Procs |-> {}]
    /\ delay = [p \in Procs |-> 0]
    /\ news = [p \in Procs |-> NewsIdle]
    /\ call = NoCall
    /\ \E column \in RsiColumns :
          df = [k \in 1..Len(column) |-> [RSI |-> column[k], signal |-> "not set"]]
    /\ verdict = NoVerdict

\* df['signal'] = np.select(conditions, choices, default='Neutral/No signal')
Select ==
    /\ call = NoCall
    /\ df # <<>>
    /\ df' = [k \in 1..Len(df) |-> [df[k] EXCEPT !.signal = np_select(df[k].RSI)]]
    /\ call' = [name |-> "np.select"]
    /\ UNCHANGED <<store, verdict>>
    /\ UNCHANGED procVars

NextSelect ==
    \/ Select
    \/ \E price \in NextPrices(Series(store)) : Observe(price)
    \/ Analyze(Analysed, None, None)

SpecSelect == InitSelect /\ [][NextSelect]_vars

(***************************************************************************)
(* SpecCrash: analyze_crypto_bull_bear step by step.  The call runs three  *)
(* with statements one after the other, each on a handle of its own:       *)
(*   get_market_data         SELECT, then the frame is computed            *)
(*   create_signals_table    CREATE TABLE IF NOT EXISTS                    *)
(*   save_indicators_to_db   executemany(INSERT OR REPLACE), one record of *)
(*                           the frame at a time inside one transaction    *)
(* op names the with statement the analyst is in.  The process can die at  *)
(* any step: its open transaction is never committed and SQLite discards   *)
(* it when the file is opened next.  Between two calls the client writes   *)
(* and corrects observations.                                              *)
(***************************************************************************)
Analyst == Writer

SelectStatement == <<"SELECT * FROM crypto_market_data WHERE crypto_id = ?">>

\* The exception of save_indicators_to_db leaves analyze_crypto_bull_bear.
Raised == [outlook |-> "raised"]

InAnalysis == call.name = "analyze_crypto_bull_bear" /\ pc[Analyst] # "idle"

InUnit(o) == InAnalysis /\ op[Analyst] = o

\* analyze_crypto_bull_bear(Analysed) is called and enters get_market_data.
AnalyzeCalled ==
    /\ pc[Analyst] = "idle"
    /\ Enter(Analyst, "get_market_data")
    /\ call' = [name |-> "analyze_crypto_bull_bear"]
    /\ df' = <<>>
    /\ verdict' = NoVerdict
    /\ UNCHANGED <<store, lock, txn, news>>

\* cursor.execute(query, params) and fetchall(); the frame is what
\* calculate_technical_indicators makes of the rows.
Fetch ==
    /\ InUnit("get_market_data")
    /\ pc[Analyst] = "body"
    /\ batch[Analyst] = <<>>
    /\ batch' = [batch EXCEPT ![Analyst] = <<SelectStatement>>]
    /\ \E order \in FetchOrders :
          df' = calculate_technical_indicators(View(Analyst), Analysed, None, None, order)
    /\ UNCHANGED <<store, lock, pc, op, txn, exc, result, met, fk_on, news, call, verdict>>
    /\ UNCHANGED connVars

ReadCommit ==
    /\ InUnit("get_market_data")
    /\ batch[Analyst] # <<>>
    /\ Commit(Analyst)

\* if df.empty: return "No data available ..."; else save_indicators_to_db(df), which
\* starts with create_signals_table().
ReadReturns ==
    /\ InUnit("get_market_data")
    /\ pc[Analyst] = "done"
    /\ IF df = <<>>
       THEN /\ Leave(Analyst)
            /\ verdict' = NoData
            /\ UNCHANGED <<exc, call, df, news>>
       ELSE /\ Enter(Analyst, "create_signals_table")
            /\ UNCHANGED <<clientVars, news>>
    /\ UNCHANGED <<store, lock, txn>>

\* create_signals_table has returned: the with statement of the INSERT starts.
CreateReturns ==
    /\ InUnit("create_signals_table")
    /\ pc[Analyst] = "done"
    /\ Enter(Analyst, "save_indicators_to_db")
    /\ UNCHANGED <<store, lock, txn>>
    /\ UNCHANGED <<clientVars, news>>

\* cursor.executemany(insert_query, records) takes the next record.
SaveRow ==
    /\ InUnit("save_indicators_to_db")
    /\ pc[Analyst] = "body"
    /\ Len(batch[Analyst]) < Len(df)
    /\ lock \in {0, Analyst}
    /\ LET rec == to_records(df)[Len(batch[Analyst]) + 1]
       IN /\ batch' = [batch EXCEPT ![Analyst] = Append(@, rec)]
          /\ txn' = [txn EXCEPT ![Analyst] =
                        {[View(Analyst) EXCEPT !.crypto_signals = InsertOrReplaceSignal(@, rec)]}]
    /\ lock' = Analyst
    /\ UNCHANGED <<store, pc, op, exc, result, met, fk_on>>
    /\ UNCHANGED connVars
    /\ UNCHANGED <<clientVars, news>>

\* The statement for the next record fails: the disk fails.
SaveFails ==
    /\ InUnit("save_indicators_to_db")
    /\ pc[Analyst] = "body"
    /\ Len(batch[Analyst]) < Len(df)
    /\ exc' = [exc EXCEPT ![Analyst] = "DiskIOError"]
    /\ met' = [met EXCEPT ![Analyst] = Append(@, <<"work", "DiskIOError">>)]
    /\ pc' = [pc EXCEPT ![Analyst] = "except"]
    /\ UNCHANGED <<store, lock, op, batch, txn, result, fk_on>>
    /\ UNCHANGED connVars
    /\ UNCHANGED <<clientVars, news>>

SaveCommit ==
    /\ InUnit("save_indicators_to_db")
    /\ Len(batch[Analyst]) = Len(df)
    /\ Commit(Analyst)

\* save_indicators_to_db has returned, and latest_row gives the verdict; or its
\* exception leaves analyze_crypto_bull_bear, which catches nothing.
SaveReturns ==
    /\ InUnit("save_indicators_to_db")
    /\ pc[Analyst] = "done"
    /\ Leave(Analyst)
    /\ verdict' = IF result[Analyst] = "ok" THEN Verdict(df, Analysed) ELSE Raised
    /\ UNCHANGED <<store, lock, txn, exc, call, df, news>>

\* The process dies inside the call.  unit and written say where: the with statement
\* it was in and the number of records executemany had taken.
Crash ==
    /\ InAnalysis
    /\ Leave(Analyst)
    /\ txn' = [txn EXCEPT ![Analyst] = {}]
    /\ lock' = Released(Analyst)
    /\ exc' = [exc EXCEPT ![Analyst] = "none"]
    /\ call' = [name |-> "crash", unit |-> op[Analyst],
                written |-> IF txn[Analyst] = {} THEN 0 ELSE Len(batch[Analyst])]
    /\ df' = <<>>
    /\ verdict' = NoVerdict
    /\ UNCHANGED <<store, news>>

NextCrash ==
    \/ /\ pc[Analyst] = "idle"
       /\ \E row \in ClientRows("insert_market_data") : InsertRow("insert_market_data", row)
    \/ /\ pc[Analyst] = "idle"
       /\ \E t \in ObsTexts, v \in Vals : UpdateMarketData(Analysed, t, v)
    \/ AnalyzeCalled
    \/ InAnalysis /\ Connect(Analyst)
    \/ Fetch
    \/ ReadCommit
    \/ ReadReturns
    \/ InAnalysis /\ ExecCreate(Analyst)
    \/ InAnalysis /\ CommitCreate(Analyst)
    \/ CreateReturns
    \/ SaveRow
    \/ SaveFails
    \/ SaveCommit
    \/ InAnalysis /\ Handle(Analyst)
    \/ SaveReturns
    \/ Crash

SpecCrash == Init /\ [][NextCrash]_vars

(***************************************************************************)
(* The news tables.  A row is a tuple:                                     *)
(*   news_sources        <<id, name>>                                      *)
(*   news_categories     <<id, name>>                                      *)
(*   news_articles       <<id, url, title, source_id>>   title for title,  *)
(*                                                       published_date .. *)
(*   article_categories  <<article_id, category_id>>                       *)
(* id is the rowid: an INSERT gives the greatest id of the table plus one. *)
(* A text is a string, "" for the empty text and for None; an id that was  *)
(* not found, or a local that was never assigned, is 0.                    *)
(***************************************************************************)
lastrowid(table) == 1 + Max({r[1] : r \in table} \cup {0})

\* SELECT id FROM <table> WHERE <column n> = ?, then fetchone(): 0 for None.
IdWhere(table, n, value) ==
    IF \E r \in table : r[n] = value
    THEN (CHOOSE r \in table : r[n] = value /\ \A q \in table : q[n] = value => r[1] <= q[1])[1]
    ELSE 0

SourceIdOf(db, name) == IdWhere(db.news_sources, 2, name)

CategoryIdOf(db, name) == IdWhere(db.news_categories, 2, name)

ArticleIdOf(db, url) == IdWhere(db.news_articles, 2, url)

InsertSource(db, name) ==
    [db EXCEPT !.news_sources = @ \cup {<<lastrowid(db.news_sources), name>>}]

InsertCategory(db, name) ==
    [db EXCEPT !.news_categories = @ \cup {<<lastrowid(db.news_categories), name>>}]

\* The source id of the article row is the one looked up before it is written; see
\* ReutersSourceId for the Reuters loop of store_articles_from_scraper.
InsertArticle(db, title, url, source_id) ==
    [db EXCEPT !.news_articles = @ \cup {<<lastrowid(db.news_articles), url, title, source_id>>}]

\* UPDATE news_articles SET title = ?, source_id = ?, ... WHERE id = ?
UpdateArticle(db, article_id, title, source_id) ==
    [db EXCEPT !.news_articles =
         {IF r[1] = article_id THEN <<r[1], r[2], title, source_id>> ELSE r : r \in @}]

\* An INSERT of url breaks UNIQUE(url).
UrlTaken(db, url) ==
    "news_articles.url" \in db.unique /\ \E r \in db.news_articles : r[2] = url

\* DELETE FROM article_categories WHERE article_id = ?
DeleteLinks(db, article_id) ==
    [db EXCEPT !.article_categories = {r \in @ : r[1] # article_id}]

InsertLink(db, article_id, category_id) ==
    [db EXCEPT !.article_categories = @ \cup {<<article_id, category_id>>}]

\* The categories an article is linked to, by name.
CategoriesOf(db, article_id) ==
    {c[2] : c \in {c \in db.news_categories :
                       <<article_id, c[1]>> \in db.article_categories}}

(***************************************************************************)
(* store_article in a process p.  The call runs, one after the other,      *)
(*   get_source_id            one with statement: SELECT, INSERT if absent *)
(*   the article              one with statement: SELECT, UPDATE or INSERT *)
(*   the categories           one with statement: DELETE, then for every   *)
(*                            category get_category_id and INSERT          *)
(* get_category_id is called inside the third with statement and opens     *)
(* handles of its own: one for the SELECT and, if the category is absent,  *)
(* another for the INSERT.  sqlite3 opens a transaction before the first   *)
(* INSERT, UPDATE or DELETE of a handle, not before a SELECT; the          *)
(* statement takes the write lock, which the handle keeps up to its commit *)
(* or rollback.  lock = p says that the handle of p's with statement has   *)
(* it; a statement of another handle, of p or of another process, waits    *)
(* for lock = 0.  A process waiting for another process gets the lock      *)
(* within the timeout; a handle waiting for its own process never does.    *)
(***************************************************************************)
\* What the news writers leave alone.
nonNewsVars == <<pc, op, batch, retry_count, conn, cursor, nopened, open, entered, exc,
                 result, work_runs, met, fk_on, delay, call, df, verdict>>

InNews(p, o, at) == news[p].op = o /\ news[p].pc = at

\* if not url or not title: return None
StoreArticle(p, title, url, source_name, categories) ==
    /\ news[p].pc = "idle"
    /\ news' = [news EXCEPT ![p] =
                   IF url = "" \/ title = ""
                   THEN [NewsIdle EXCEPT !.op = "store_article", !.result = Returned(0)]
                   ELSE [NewsIdle EXCEPT !.op = "store_article", !.pc = "get_source_id",
                                         !.title = title, !.url = url,
                                         !.source_name = source_name,
                                         !.categories = categories]]
    /\ UNCHANGED <<store, lock, txn>>
    /\ UNCHANGED nonNewsVars

\* get_source_id: the SELECT, the INSERT if there is no row, and the commit at the end
\* of the with statement.
GetSourceId(p) ==
    /\ InNews(p, "store_article", "get_source_id")
    /\ IF SourceIdOf(store, news[p].source_name) # 0
       THEN /\ news' = [news EXCEPT ![p].source_id = SourceIdOf(store, news[p].source_name),
                                    ![p].pc = "select_article"]
            /\ UNCHANGED store
       ELSE /\ lock = 0
            /\ store' = InsertSource(store, news[p].source_name)
            /\ news' = [news EXCEPT ![p].source_id = lastrowid(store.news_sources),
                                    ![p].pc = "select_article"]
    /\ UNCHANGED <<lock, txn>>
    /\ UNCHANGED nonNewsVars

\* SELECT id FROM news_articles WHERE url = ?; existing = cursor.fetchone()
SelectArticle(p) ==
    /\ InNews(p, "store_article", "select_article")
    /\ news' = [news EXCEPT ![p].article_id = ArticleIdOf(store, news[p].url),
                            ![p].pc = "write_article"]
    /\ UNCHANGED <<store, lock, txn>>
    /\ UNCHANGED nonNewsVars

\* if existing: UPDATE ... WHERE id = ?; else: INSERT and article_id = lastrowid; then
\* the commit at the end of the with statement.  An INSERT that breaks UNIQUE(url)
\* raises IntegrityError, which leaves store_article.
WriteArticle(p) ==
    /\ InNews(p, "store_article", "write_article")
    /\ lock = 0
    /\ IF news[p].article_id # 0
       THEN /\ store' = UpdateArticle(store, news[p].article_id, news[p].title,
                                      news[p].source_id)
            /\ news' = [news EXCEPT ![p].pc = "categories"]
       ELSE IF UrlTaken(store, news[p].url)
            THEN /\ news' = [news EXCEPT ![p].pc = "idle",
                                         ![p].result = RaisedError("IntegrityError")]
                 /\ UNCHANGED store
            ELSE /\ store' = InsertArticle(store, news[p].title, news[p].url,
                                           news[p].source_id)
                 /\ news' = [news EXCEPT ![p].article_id = lastrowid(store.news_articles),
                                         ![p].pc = "categories"]
    /\ UNCHANGED <<lock, txn>>
    /\ UNCHANGED nonNewsVars

\* if categories and isinstance(categories, list): DELETE FROM article_categories;
\* without categories the with statement does nothing and article_id is returned.
ClearCategories(p) ==
    /\ InNews(p, "store_article", "categories")
    /\ IF news[p].categories = <<>>
       THEN /\ news' = [news EXCEPT ![p].pc = "idle",
                                    ![p].result = Returned(news[p].article_id)]
            /\ UNCHANGED <<lock, txn>>
       ELSE /\ lock = 0
            /\ lock' = p
            /\ txn' = [txn EXCEPT ![p] = {DeleteLinks(store, news[p].article_id)}]
            /\ news' = [news EXCEPT ![p].todo = news[p].categories,
                                    ![p].pc = "get_category_id"]
    /\ UNCHANGED store
    /\ UNCHANGED nonNewsVars

\* What the INSERT of get_category_id, on a handle of its own, comes to when the write
\* lock is not free: sqlite3 raises "database is locked" after the timeout,
\* sqlite_connect takes its retry branch and yields again, and contextlib raises
\* RuntimeError("generator didn't stop after throw()").
LockedInsertRaises(l) == l # 0

\* category_id = self.get_category_id(category_name): None for an empty name, the id of
\* the row if there is one, else the INSERT on another handle.  The exception of the
\* INSERT leaves the with statement of store_article, which rolls back.
GetCategoryId(p) ==
    /\ InNews(p, "store_article", "get_category_id")
    /\ LET name == Head(news[p].todo)
       IN IF name = ""
          THEN /\ news' = [news EXCEPT ![p].todo = Tail(@),
                                       ![p].pc = IF Tail(news[p].todo) = <<>>
                                                 THEN "commit_categories"
                                                 ELSE "get_category_id"]
               /\ UNCHANGED <<store, lock, txn>>
          ELSE IF CategoryIdOf(store, name) # 0
               THEN /\ news' = [news EXCEPT ![p].category_id = CategoryIdOf(store, name),
                                            ![p].pc = "insert_link"]
                    /\ UNCHANGED <<store, lock, txn>>
               ELSE IF LockedInsertRaises(lock)
                    THEN /\ news' = [news EXCEPT
                                        ![p].pc = "idle",
                                        ![p].result = RaisedError("GeneratorDidntStop")]
                         /\ txn' = [txn EXCEPT ![p] = {}]
                         /\ lock' = Released(p)
                         /\ UNCHANGED store
                    ELSE /\ lock = 0
                         /\ store' = InsertCategory(store, name)
                         /\ news' = [news EXCEPT
                                        ![p].category_id = lastrowid(store.news_categories),
                                        ![p].pc = "insert_link"]
                         /\ UNCHANGED <<lock, txn>>
    /\ UNCHANGED nonNewsVars

\* INSERT INTO article_categories (article_id, category_id)
InsertCategoryLink(p) ==
    /\ InNews(p, "store_article", "insert_link")
    /\ txn' = [txn EXCEPT ![p] = {InsertLink(View(p), news[p].article_id,
                                             news[p].category_id)}]
    /\ news' = [news EXCEPT ![p].todo = Tail(@),
                            ![p].pc = IF Tail(news[p].todo) = <<>>
                                      THEN "commit_categories"
                                      ELSE "get_category_id"]
    /\ UNCHANGED <<store, lock>>
    /\ UNCHANGED nonNewsVars

\* The end of the third with statement, and return article_id.
CommitCategories(p) ==
    /\ InNews(p, "store_article", "commit_categories")
    /\ store' = AfterCommit(store, txn[p])
    /\ txn' = [txn EXCEPT ![p] = {}]
    /\ lock' = Released(p)
    /\ news' = [news EXCEPT ![p].pc = "idle", ![p].result = Returned(news[p].article_id)]
    /\ UNCHANGED nonNewsVars

(***************************************************************************)
(* SpecArticles: two processes calling store_article on one file, whose    *)
(* schema declares the url of an article UNIQUE or does not, and which has *)
(* the category Finance already or has no category.                        *)
(***************************************************************************)
Urls == {"", "https://a"}

Titles == {"", "title"}

CategoryLists == {<<>>, <<"Finance">>, <<"">>}

InitArticles ==
    /\ \E unique \in SUBSET {"news_articles.url"},
          categories \in {{}, {<<1, "Finance">>}} :
          store = [EmptyStore EXCEPT !.unique = unique, !.news_categories = categories]
    /\ lock = 0
    /\ pc = [p \in Procs |-> "idle"]
    /\ op = [p \in Procs |-> "none"]
    /\ batch = [p \in Procs |-> <<>>]
    /\ retry_count = [p \in Procs |-> 0]
    /\ conn = [p \in Procs |-> 0]
    /\ cursor = [p \in Procs |-> 0]
    /\ nopened = [p \in Procs |-> 0]
    /\ open = [p \in Procs |-> {}]
    /\ txn = [p \in Procs |-> {}]
    /\ entered = [p \in Procs |-> FALSE]
    /\ exc = [p \in Procs |-> "none"]
    /\ result = [p \in Procs |-> "none"]
    /\ work_runs = [p \in Procs |-> 0]
    /\ met = [p \in Procs |-> <<>>]
    /\ fk_on = [p \in Procs |-> {}]
    /\ delay = [p \in Procs |-> 0]
    /\ news = [p \in Procs |-> NewsIdle]
    /\ call = NoCall
    /\ df = <<>>
    /\ verdict = NoVerdict

NextArticles ==
    \E p \in Procs :
        \/ \E title \in Titles, url \in Urls, categories \in CategoryLists :
               /\ Cardinality(store.news_articles) < MaxArticles
               /\ StoreArticle(p, title, url, "Yahoo Finance", categories)
        \/ GetSourceId(p)
        \/ SelectArticle(p)
        \/ WriteArticle(p)
        \/ ClearCategories(p)
        \/ GetCategoryId(p)
        \/ InsertCategoryLink(p)
        \/ CommitCategories(p)

SpecArticles == InitArticles /\ [][NextArticles]_vars

(***************************************************************************)
(* store_articles_from_scraper in a process p: one with statement around   *)
(* the loop over yfinance_data and the loop over reuters_data, all         *)
(* statements on the one cursor.  A Yahoo Finance article is <<title,      *)
(* link>>, a Reuters article <<headline, url, category>>.  One step is one *)
(* pass of a loop.                                                         *)
(***************************************************************************)
\* One pass of the Yahoo Finance loop for an article with title and url: the source
\* 'Yahoo Finance' is looked up or inserted, the article updated or inserted, the
\* category 'Finance' looked up or inserted, the links of the article replaced by the
\* one to 'Finance'.  The result is the content of the transaction and the local
\* source_id.
YahooPass(db, title, url) ==
    LET found == SourceIdOf(db, "Yahoo Finance")
        db1 == IF found # 0 THEN db ELSE InsertSource(db, "Yahoo Finance")
        source_id == SourceIdOf(db1, "Yahoo Finance")
        existing == ArticleIdOf(db1, url)
        db2 == IF existing # 0
               THEN UpdateArticle(db1, existing, title, source_id)
               ELSE InsertArticle(db1, title, url, source_id)
        article_id == ArticleIdOf(db2, url)
        db3 == IF CategoryIdOf(db2, "Finance") # 0 THEN db2 ELSE InsertCategory(db2, "Finance")
        category_id == CategoryIdOf(db3, "Finance")
    IN [db |-> InsertLink(DeleteLinks(db3, article_id), article_id, category_id),
        source_id |-> source_id]

\* The source id the Reuters loop writes.  The statements that look up and insert the
\* source 'Reuters' are indented under "if not url or not title:" after its continue
\* and never run: source_id is the local as the Yahoo Finance loop left it, or not
\* assigned at all.
ReutersSourceId(db, source_id) == source_id

\* One pass of the Reuters loop for an article with headline and url, source_id
\* assigned: the article is updated or inserted, and if it has a category the category
\* is looked up or inserted and the links of the article replaced by the one to it.
ReutersPass(db, title, url, category, source_id) ==
    LET existing == ArticleIdOf(db, url)
        db2 == IF existing # 0
               THEN UpdateArticle(db, existing, title, ReutersSourceId(db, source_id))
               ELSE InsertArticle(db, title, url, ReutersSourceId(db, source_id))
        article_id == ArticleIdOf(db2, url)
        db3 == IF CategoryIdOf(db2, category) # 0 THEN db2 ELSE InsertCategory(db2, category)
        category_id == CategoryIdOf(db3, category)
    IN IF category = ""
       THEN db2
       ELSE InsertLink(DeleteLinks(db3, article_id), article_id, category_id)

\* if not url or not title: continue
Skipped(article) == article[1] = "" \/ article[2] = ""

InYahooLoop(p) ==
    /\ InNews(p, "store_articles_from_scraper", "loops")
    /\ news[p].yahoo_done < Len(news[p].yahoo)

InReutersLoop(p) ==
    /\ InNews(p, "store_articles_from_scraper", "loops")
    /\ news[p].yahoo_done = Len(news[p].yahoo)
    /\ news[p].reuters_done < Len(news[p].reuters)

\* The call is over with a result, and its locals are gone.
Ended(outcome) ==
    [NewsIdle EXCEPT !.op = "store_articles_from_scraper", !.result = outcome]

ScraperCalled(p, yfinance_data, reuters_data) ==
    /\ news[p].pc = "idle"
    /\ news' = [news EXCEPT ![p] =
                   [NewsIdle EXCEPT !.op = "store_articles_from_scraper", !.pc = "loops",
                                    !.yahoo = yfinance_data, !.reuters = reuters_data]]
    /\ UNCHANGED <<store, lock, txn>>
    /\ UNCHANGED nonNewsVars

YahooArticle(p) ==
    /\ InYahooLoop(p)
    /\ LET article == news[p].yahoo[news[p].yahoo_done + 1]
           pass == YahooPass(View(p), article[1], article[2])
       IN IF Skipped(article)
          THEN /\ news' = [news EXCEPT ![p].yahoo_done = @ + 1]
               /\ UNCHANGED <<lock, txn>>
          ELSE /\ lock \in {0, p}
               /\ lock' = p
               /\ txn' = [txn EXCEPT ![p] = {pass.db}]
               /\ news' = [news EXCEPT ![p].yahoo_done = @ + 1,
                                       ![p].yahoo_count = @ + 1,
                                       ![p].source_id = pass.source_id]
    /\ UNCHANGED store
    /\ UNCHANGED nonNewsVars

\* Reading source_id before it was assigned raises UnboundLocalError, which the
\* "except Exception" clause of sqlite_connect answers with a rollback.
ReutersArticle(p) ==
    /\ InReutersLoop(p)
    /\ LET article == news[p].reuters[news[p].reuters_done + 1]
       IN IF Skipped(article)
          THEN /\ news' = [news EXCEPT ![p].reuters_done = @ + 1]
               /\ UNCHANGED <<store, lock, txn>>
          ELSE IF news[p].source_id = 0
               THEN /\ store' = AfterRollback(store, txn[p])
                    /\ txn' = [txn EXCEPT ![p] = {}]
                    /\ lock' = Released(p)
                    /\ news' = [news EXCEPT ![p] = Ended(RaisedError("UnboundLocalError"))]
               ELSE /\ lock \in {0, p}
                    /\ lock' = p
                    /\ txn' = [txn EXCEPT ![p] =
                                  {ReutersPass(View(p), article[1], article[2], article[3],
                                               news[p].source_id)}]
                    /\ news' = [news EXCEPT ![p].reuters_done = @ + 1,
                                            ![p].reuters_count = @ + 1]
                    /\ UNCHANGED store
    /\ UNCHANGED nonNewsVars

\* A statement of a pass fails: the disk fails.
ScraperFails(p) ==
    /\ InYahooLoop(p) \/ InReutersLoop(p)
    /\ store' = AfterRollback(store, txn[p])
    /\ txn' = [txn EXCEPT ![p] = {}]
    /\ lock' = Released(p)
    /\ news' = [news EXCEPT ![p] = Ended(RaisedError("DiskIOError"))]
    /\ UNCHANGED nonNewsVars

\* Both loops are through: the commit at the end of the with statement, and the counts
\* are returned.
ScraperReturns(p) ==
    /\ InNews(p, "store_articles_from_scraper", "loops")
    /\ news[p].yahoo_done = Len(news[p].yahoo)
    /\ news[p].reuters_done = Len(news[p].reuters)
    /\ store' = AfterCommit(store, txn[p])
    /\ txn' = [txn EXCEPT ![p] = {}]
    /\ lock' = Released(p)
    /\ news' = [news EXCEPT ![p] = Ended(Returned([yahoo_finance |-> news[p].yahoo_count,
                                                   reuters |-> news[p].reuters_count]))]
    /\ UNCHANGED nonNewsVars

(***************************************************************************)
(* SpecScraper: one process calling store_articles_from_scraper again and  *)
(* again with lists of at most MaxList articles.                           *)
(***************************************************************************)
YahooArticles == {<<"title", "https://a">>, <<"title", "https://b">>, <<"", "https://a">>}

ReutersArticles ==
    {<<"headline", "https://b", "Business">>, <<"headline", "https://c", "">>,
     <<"headline", "", "Business">>}

ListsOf(articles) == UNION {[1..n -> articles] : n \in 0..MaxList}

NextScraper ==
    \/ \E yfinance_data \in ListsOf(YahooArticles), reuters_data \in ListsOf(ReutersArticles) :
           ScraperCalled(Writer, yfinance_data, reuters_data)
    \/ YahooArticle(Writer)
    \/ ReutersArticle(Writer)
    \/ ScraperFails(Writer)
    \/ ScraperReturns(Writer)

SpecScraper == Init /\ [][NextScraper]_vars

(***************************************************************************)
(* Crypto.insert_data_into_db (src/regi/crypto.py) in the process Writer:  *)
(* three if statements, each calling one batch writer when its list is not *)
(* empty.  call.given is the set of writers whose list is not empty,       *)
(* call.step the if statement the call is at, call.log the writers that    *)
(* were called, with the instruments of their batch and how they ended.    *)
(* An exception of a writer is not caught and ends the call.               *)
(***************************************************************************)
StepsObservationsFirst == <<"insert_market_data", "insert_cryptos", "insert_metadata">>

\* if cryptos: ...  if market_data: ...  if metadata: ...
Steps == <<"insert_cryptos", "insert_market_data", "insert_metadata">>

\* The instruments of the tuples that were bound.
IdsOf(o, b) == {b[k][1] : k \in {j \in 1..Len(b) : BindsOk(o, b[j])}}

InIngest == call.name = "insert_data_into_db" /\ call.outcome = "running"

\* What the call is after the if statement it is at.
StepDone(c) ==
    [c EXCEPT !.step = @ + 1,
              !.outcome = IF c.step = Len(Steps) THEN "returned" ELSE "running"]

IngestCalled(given) ==
    /\ pc[Writer] = "idle"
    /\ ~InIngest
    /\ call' = [name |-> "insert_data_into_db", given |-> given, step |-> 1,
                log |-> <<>>, outcome |-> "running"]
    /\ UNCHANGED <<store, df, verdict>>
    /\ UNCHANGED procVars

\* The list is None or empty: the if statement does nothing.
IngestSkips ==
    /\ InIngest
    /\ pc[Writer] = "idle"
    /\ Steps[call.step] \notin call.given
    /\ call' = StepDone(call)
    /\ UNCHANGED <<store, df, verdict>>
    /\ UNCHANGED procVars

\* The list is not empty: the writer is called.
IngestEnters ==
    /\ InIngest
    /\ Steps[call.step] \in call.given
    /\ Call(Writer, Steps[call.step])

\* The with body of the writer ends after executemany has run the whole list.
IngestCommit ==
    /\ InIngest
    /\ batch[Writer] # <<>>
    /\ Commit(Writer)

\* The writer returns, and the call goes on to the next if statement, or the writer
\* raises, and the call ends with its exception.
IngestLeaves ==
    /\ InIngest
    /\ pc[Writer] = "done"
    /\ Leave(Writer)
    /\ LET entry == [op |-> op[Writer], result |-> result[Writer],
                     ids |-> IdsOf(op[Writer], batch[Writer])]
           logged == [call EXCEPT !.log = Append(@, entry)]
       IN call' = IF result[Writer] = "ok"
                  THEN StepDone(logged)
                  ELSE [logged EXCEPT !.outcome = "raised"]
    /\ UNCHANGED <<store, lock, txn, exc, news, df, verdict>>

(***************************************************************************)
(* SpecIngest: one process calling insert_data_into_db again and again,    *)
(* with every combination of empty and non-empty lists; a tuple may have a *)
(* column missing and the disk may fail at any statement.                  *)
(***************************************************************************)
IngestRows(o) == {r \in GoodRows(o) : \A c \in 2..Len(r) : r[c] = 1} \cup {BadRow}

NextIngest ==
    \/ \E given \in SUBSET Ops : IngestCalled(given)
    \/ IngestSkips
    \/ IngestEnters
    \/ InIngest /\ Connect(Writer)
    \/ InIngest /\ ExecRow(Writer, IngestRows(op[Writer]))
    \/ InIngest /\ StatementFails(Writer, "DiskIOError", IngestRows(op[Writer]))
    \/ IngestCommit
    \/ InIngest /\ Handle(Writer)
    \/ IngestLeaves

SpecIngest == Init /\ [][NextIngest]_vars

(***************************************************************************)
(* Properties of the signal store, checked under SpecSignals.              *)
(***************************************************************************)
\* C11: in every reachable state every row of crypto_signals has an observation row in
\* crypto_market_data with the same crypto_id and the same timestamp.
C11_SignalsHaveObservation ==
    \A sig \in store.crypto_signals :
        \E obs \in store.crypto_market_data : obs[1] = sig[1] /\ obs[2] = sig[2]

Twice(db, i, a, b, first, second) ==
    analyze_crypto_bull_bear(analyze_crypto_bull_bear(db, i, a, b, first).db,
                             i, a, b, second)

\* C14: in every reachable state, analysing an instrument a second time on unchanged
\* observations gives the frame, the verdict and the signal table of the first time,
\* whatever order the rows are fetched in, and crypto_signals never holds two rows with
\* the same (crypto_id, timestamp).
C14_RecomputationIsIdempotent ==
    /\ \A i \in Ids, a \in Bounds, b \in Bounds, first \in FetchOrders, second \in FetchOrders :
           Twice(store, i, a, b, first, second) =
               analyze_crypto_bull_bear(store, i, a, b, first)
    /\ \A x \in store.crypto_signals, y \in store.crypto_signals :
           x[1] = y[1] /\ x[2] = y[2] => x = y

\* An analysis of several observations, one of them with an updated price, has been
\* saved.
C14_Witness ==
    /\ call.name = "analyze_crypto_bull_bear"
    /\ Len(df) > 1
    /\ \E k \in 1..Len(df) : df[k].price_usd # 1
    /\ \A k \in 1..Len(df) : to_records(df)[k] \in store.crypto_signals

\* C16 (under SpecPurge): a call delete_crypto(i) removes the cryptocurrency row of i
\* and every crypto_market_data row of i in one step, and leaves the rows of the other
\* instruments in both tables, and the whole of crypto_metadata, as they were.
C16_PurgeKeepsMetadata ==
    [][call'.name = "delete_crypto"
          => \A i \in Ids :
                 DeleteCrypto(i)
                     => /\ store'.cryptocurrency =
                               {r \in store.cryptocurrency : cryptocurrency_pk(r) # i}
                        /\ store'.crypto_market_data =
                               {r \in store.crypto_market_data : r[1] # i}
                        /\ store'.crypto_metadata = store.crypto_metadata]_vars

\* After a purge: an instrument with a metadata row and nothing else, beside an
\* instrument that has its row and its observations.
C16_Witness ==
    /\ call.name = "delete_crypto"
    /\ \E i \in Ids, j \in Ids :
          /\ i # j
          /\ \E m \in store.crypto_metadata : m[1] = i
          /\ ~\E c \in store.cryptocurrency : cryptocurrency_pk(c) = i
          /\ get_market_data(store, i) = {}
          /\ \E c \in store.cryptocurrency : cryptocurrency_pk(c) = j
          /\ get_market_data(store, j) # {}

(***************************************************************************)
(* Properties of the indicator engine and the trend classifier, checked    *)
(* under SpecSeries.                                                       *)
(***************************************************************************)
Analysis == call.name = "analyze_crypto_bull_bear"

\* The last steps prices of P are each above the one before.
RisingOver(P, steps) ==
    /\ Len(P) > steps
    /\ \A i \in (Len(P) - steps + 1)..Len(P) : P[i] > P[i - 1]

\* C12: when the series of the instrument rises strictly over at least its last 14
\* steps, analyze_crypto_bull_bear finds RSI > 70 on the last row, labels it
\* 'Bearish Signal' and returns the bearish verdict for the instrument.
C12_RisingSeriesIsBearish ==
    Analysis /\ RisingOver(Series(store), window_length)
        => /\ Len(df) = Len(Series(store))
           /\ Greater(df[Len(df)].RSI, 70)
           /\ df[Len(df)].signal = "Bearish Signal"
           /\ verdict = [outlook |-> "Bearish", crypto_id |-> Analysed]

\* A rise that starts after another move has been analysed.
C12_Witness ==
    /\ Analysis
    /\ RisingOver(Series(store), window_length)
    /\ ~RisingOver(Series(store), window_length + 1)
    /\ Len(Series(store)) > window_length + 1
    /\ verdict.outlook = "Bearish"

(***************************************************************************)
(* Properties of the connection manager and of schema creation, checked    *)
(* under Spec and SpecSchema.                                              *)
(***************************************************************************)
\* C15: in every reachable state, a handle whose cursor sqlite_connect has made, and
\* so every handle the with body works on, has had PRAGMA foreign_keys = ON executed on
\* it; this holds for the handles opened for a retry as well.
C15_ForeignKeysOnEveryHandle ==
    \A p \in Procs :
        /\ cursor[p] # 0 => cursor[p] \in fk_on[p]
        /\ pc[p] = "body" => conn[p] = cursor[p] /\ conn[p] \in fk_on[p]

\* The with body runs on a handle opened after a locked attempt.
C15_Witness ==
    \E p \in Procs : pc[p] = "body" /\ conn[p] > 1 /\ retry_count[p] > 0

\* C17: a call of create_signals_table never fails, whatever the other processes do.
C17_SchemaCreationNeverFails ==
    \A p \in Procs :
        op[p] = "create_signals_table" /\ pc[p] = "done" => result[p] = "ok"

\* C19 as claimed: in an analysed series, row k (counted from 1) has a null ma_7d and
\* a null std_7d exactly when k < 7, a null RSI exactly when k < 14, and a null
\* daily_return exactly when k = 1.
C19_NullOnlyBeforeWindow ==
    Analysis
        => \A k \in 1..Len(df) :
               /\ df[k].ma_7d = NULL <=> k < rolling_window
               /\ df[k].std_7d = NULL <=> k < rolling_window
               /\ df[k].RSI = NULL <=> k < window_length
               /\ df[k].daily_return = NULL <=> k = 1

\* C19 amended: the same for ma_7d, std_7d and RSI; daily_return is null on the first
\* row and on a row whose price and previous price are both 0, and nowhere else.
C19_NullBeforeWindowOrZeroByZero ==
    Analysis
        => \A k \in 1..Len(df) :
               /\ df[k].ma_7d = NULL <=> k < rolling_window
               /\ df[k].std_7d = NULL <=> k < rolling_window
               /\ df[k].RSI = NULL <=> k < window_length
               /\ df[k].daily_return = NULL
                      <=> k = 1 \/ (df[k].price_usd = 0 /\ df[k - 1].price_usd = 0)

\* A series long enough for every window has been analysed, with a price of 0 kept
\* from one day to the next.
C19_Witness ==
    /\ Analysis
    /\ Len(df) > window_length
    /\ \E k \in 2..Len(df) : df[k].daily_return = NULL
    /\ df[window_length].RSI # NULL
    /\ df[rolling_window].std_7d # NULL

OutlookOf(label) ==
    CASE label = "Bullish Signal" -> "Bullish"
      [] label = "Bearish Signal" -> "Bearish"
      [] OTHER -> "Neutral"

\* C20: after analyze_crypto_bull_bear on a series with observations, the last row of
\* the frame is the observation with the greatest timestamp, in whatever order the rows
\* came from the file, and the verdict names the instrument and is the bullish, bearish
\* or neutral one according to the label of that row alone.
C20_VerdictFromLatestRow ==
    Analysis /\ df # <<>>
        => /\ \A obs \in get_market_data(store, Analysed) :
                  ~InstantLess(df[Len(df)].timestamp, to_datetime(obs[2]))
           /\ verdict.crypto_id = Analysed
           /\ verdict.outlook = OutlookOf(df[Len(df)].signal)

\* The verdict differs from what an earlier row with a defined RSI would have given.
C20_Witness ==
    /\ Analysis
    /\ Len(df) > window_length
    /\ \E k \in window_length..(Len(df) - 1) :
          OutlookOf(df[k].signal) \notin {"Neutral", verdict.outlook}
    /\ verdict.outlook \in {"Bullish", "Bearish"}

(***************************************************************************)
(* Properties of the signal column, checked under SpecSelect.              *)
(***************************************************************************)
\* C18: a row is labelled 'Bearish Signal' exactly when its RSI is defined and above
\* 70, 'Bullish Signal' exactly when its RSI is defined and below 30, and
\* 'Neutral/No signal' otherwise, so at RSI 70, at RSI 30 and at a null RSI; every row
\* of a series of fewer than 14 observations is labelled 'Neutral/No signal'.
C18_LabelFollowsThresholds ==
    call.name \in {"np.select", "analyze_crypto_bull_bear"}
        => /\ \A k \in 1..Len(df) :
                  /\ df[k].signal = "Bearish Signal"
                         <=> df[k].RSI # NULL /\ Greater(df[k].RSI, 70)
                  /\ df[k].signal = "Bullish Signal"
                         <=> df[k].RSI # NULL /\ Less(df[k].RSI, 30)
                  /\ df[k].signal = "Neutral/No signal"
                         <=> \/ df[k].RSI = NULL
                             \/ ~Greater(df[k].RSI, 70) /\ ~Less(df[k].RSI, 30)
           /\ Len(df) < window_length
                  => \A k \in 1..Len(df) :
                         call.name = "np.select" \/ df[k].signal = "Neutral/No signal"

\* A column with an RSI of exactly 70 and a null RSI has been labelled.
C18_Witness ==
    /\ call.name = "np.select"
    /\ \E k \in 1..Len(df) : df[k].RSI = Exactly(70) /\ df[k].signal = "Neutral/No signal"
    /\ \E k \in 1..Len(df) : df[k].RSI = NULL /\ df[k].signal = "Neutral/No signal"

(***************************************************************************)
(* Properties of the classifier as a writer, checked under SpecSignals.    *)
(***************************************************************************)
\* The rows of crypto_signals stored under the key of the observation obs.
SignalsOf(db, obs) == {r \in db.crypto_signals : r[1] = obs[1] /\ r[2] = obs[2]}

\* C21: when analyze_crypto_bull_bear returns for a series of n >= 1 matching
\* observations, crypto_signals holds exactly one row under the (crypto_id, timestamp)
\* key of each of the n observations, and the row holds the indicator values of the
\* frame just computed.
C21_EveryObservationGetsItsSignalRow ==
    [][\A i \in Ids, a \in Bounds, b \in Bounds :
          (call'.name = "analyze_crypto_bull_bear" /\ Analyze(i, a, b)) =>
              \A obs \in get_market_data_between(store, i, a, b) :
                  /\ Cardinality(SignalsOf(store', obs)) = 1
                  /\ \A r \in SignalsOf(store', obs) :
                        \E k \in 1..Len(df') :
                            /\ df'[k].timestamp = to_datetime(obs[2])
                            /\ r = <<i, obs[2], df'[k].daily_return, df'[k].ma_7d,
                                     df'[k].std_7d, df'[k].RSI, df'[k].signal>>]_vars

\* C22: every row returned by calculate_technical_indicators belongs to the requested
\* instrument and lies within each bound that was supplied, start <= timestamp and
\* timestamp <= end, also when only one of the two is given; with no bound the frame
\* has all observations of the instrument.
C22_EverySuppliedBoundRestricts ==
    [][\A i \in Ids, a \in Bounds, b \in Bounds :
          (call'.name = "calculate_technical_indicators" /\ Calculate(i, a, b)) =>
              /\ \A k \in 1..Len(df') :
                    /\ df'[k].crypto_id = i
                    /\ a # None => ~InstantLess(df'[k].timestamp, to_datetime(a))
                    /\ b # None => ~InstantLess(to_datetime(b), df'[k].timestamp)
              /\ (a = None /\ b = None) =>
                    /\ Len(df') = Cardinality(get_market_data(store, i))
                    /\ {df'[k].timestamp : k \in 1..Len(df')} =
                           {to_datetime(r[2]) : r \in get_market_data(store, i)}]_vars

(***************************************************************************)
(* Properties of the classifier's units of work, checked under SpecCrash.  *)
(***************************************************************************)
\* The signal rows a classification of the file db writes.
FreshSignals(db) ==
    LET records == to_records(calculate_technical_indicators(db, Analysed, None, None,
                                                             "ascending"))
    IN {records[k] : k \in 1..Len(records)}

\* C23: analyze_crypto_bull_bear reads and writes in separate units of work.  The read
\* holds no transaction and no write lock.  No step of the call, a failure and the
\* death of the process included, changes crypto_market_data, and the only step that
\* changes crypto_signals is the commit of the INSERT, which writes the records of the
\* whole frame at once; so a call that ends before that commit leaves both tables as
\* they were.  A call that returns a verdict leaves the signals recomputed from the
\* observations.
C23_ReadAndWriteAreSeparateUnits ==
    [][/\ InAnalysis =>
              /\ store'.crypto_market_data = store.crypto_market_data
              /\ store'.crypto_signals # store.crypto_signals =>
                     /\ InUnit("save_indicators_to_db")
                     /\ result'[Analyst] = "ok"
                     /\ store'.crypto_signals =
                            executemany(store.crypto_signals, to_records(df))
              /\ InUnit("get_market_data") => txn[Analyst] = {} /\ lock # Analyst
       /\ (call'.name = "analyze_crypto_bull_bear" /\ pc'[Analyst] = "idle"
              /\ verdict' \notin {NoData, Raised}) =>
              FreshSignals(store') \subseteq store'.crypto_signals]_vars

\* The process has died inside the INSERT transaction with a record written, and the
\* signals in the file are those of an earlier call, no longer those of the
\* observations.
C23_Witness ==
    /\ call.name = "crash"
    /\ call.unit = "save_indicators_to_db"
    /\ call.written >= 1
    /\ store.crypto_signals # {}
    /\ ~(FreshSignals(store) \subseteq store.crypto_signals)

(***************************************************************************)
(* The backoff, checked under SpecBackoff.                                 *)
(***************************************************************************)
\* C24: the delay slept before a retry is base delay x 2^attempt x j with j in
\* [0.5, 1.0], attempt counted from 0 for the first retry: it lies between
\* 0.5 x base x 2^attempt and base x 2^attempt.  One second is 2 * RandomSteps units.
C24_DelayWithinHalfToOne ==
    \A p \in Procs :
        delay[p] # 0 =>
            LET full == retry_delay * (2 ^ (retry_count[p] - 1)) * 2 * RandomSteps
            IN 2 * delay[p] >= full /\ delay[p] <= full

(***************************************************************************)
(* Properties of store_article, checked under SpecArticles.                *)
(***************************************************************************)
\* The category names of a list that get_category_id gives an id for.
Listed(categories) == {categories[k] : k \in 1..Len(categories)} \ {""}

\* C25: a store_article call with a non-empty title and url and a non-empty list of
\* categories ends by returning the id of the article's row, and the article is then
\* linked to exactly the listed categories, also when a listed category has no row yet.
C25_StoreArticleLinksListedCategories ==
    [][\A p \in Procs :
          (/\ news[p].op = "store_article"
           /\ news[p].pc # "idle"
           /\ news'[p].pc = "idle"
           /\ news[p].categories # <<>>) =>
              /\ news'[p].result.kind = "returned"
              /\ news'[p].result.value = ArticleIdOf(store', news[p].url)
              /\ CategoriesOf(store', news'[p].result.value) = Listed(news[p].categories)]_vars

\* C26: news_articles never holds two rows with the same url, whatever the interleaving
\* of the store_article calls of the processes; and a call that writes when its url is
\* stored updates that row and goes on with its id: it inserts no row and does not
\* raise.
C26_UrlsStayUnique ==
    [][/\ \A r1, r2 \in store'.news_articles : r1[2] = r2[2] => r1 = r2
       /\ \A p \in Procs :
             (/\ InNews(p, "store_article", "write_article")
              /\ news'[p] # news[p]
              /\ ArticleIdOf(store, news[p].url) # 0) =>
                 /\ {r[1] : r \in store'.news_articles} = {r[1] : r \in store.news_articles}
                 /\ news'[p].result.kind # "raised"
                 /\ news'[p].article_id = ArticleIdOf(store, news[p].url)]_vars

(***************************************************************************)
(* Properties of store_articles_from_scraper, checked under SpecScraper.   *)
(***************************************************************************)
InScraper(p) == InNews(p, "store_articles_from_scraper", "loops")

\* The articles of a list that have a title and a url.
Stored(list) == {k \in 1..Len(list) : ~Skipped(list[k])}

\* C27: store_articles_from_scraper writes in one transaction.  While the call runs the
\* file does not change; a call that raises leaves the file as it was before the call
\* and no transaction open; a call that returns commits all its writes in its last
\* step, after which every article of the two lists that has a title and a url has a
\* row, and the counts returned are the numbers of such articles in each list.
C27_ScraperIsOneTransaction ==
    [][\A p \in Procs :
          InScraper(p) =>
              /\ InScraper(p)' => store' = store
              /\ news'[p].result.kind = "raised" => store' = store /\ txn'[p] = {}
              /\ news'[p].result.kind = "returned" =>
                     /\ \A k \in Stored(news[p].yahoo) :
                            ArticleIdOf(store', news[p].yahoo[k][2]) # 0
                     /\ \A k \in Stored(news[p].reuters) :
                            ArticleIdOf(store', news[p].reuters[k][2]) # 0
                     /\ news'[p].result.value =
                            [yahoo_finance |-> Cardinality(Stored(news[p].yahoo)),
                             reuters |-> Cardinality(Stored(news[p].reuters))]]_vars

\* A call has written an article of each list in its transaction and has a pass left,
\* at which it can still raise, and the file has the articles of an earlier call only.
C27_Witness ==
    \E p \in Procs :
        /\ InScraper(p)
        /\ news[p].yahoo_count >= 1
        /\ news[p].reuters_count >= 1
        /\ news[p].reuters_done < Len(news[p].reuters)
        /\ txn[p] # {}
        /\ store.news_articles # {}
        /\ \E k \in Stored(news[p].yahoo) : ArticleIdOf(store, news[p].yahoo[k][2]) = 0

\* C28: a store_articles_from_scraper call with Reuters articles that have a headline
\* and a url ends by returning, and the row of each of them then has the id of the
\* news source 'Reuters' as its source_id, whatever the Yahoo Finance list is.
C28_ReutersArticlesHaveReutersSource ==
    [][\A p \in Procs :
          (InScraper(p) /\ ~InScraper(p)' /\ Stored(news[p].reuters) # {}
              /\ news'[p].result # RaisedError("DiskIOError")) =>
              /\ news'[p].result.kind = "returned"
              /\ SourceIdOf(store', "Reuters") # 0
              /\ \A k \in Stored(news[p].reuters) :
                    \A r \in store'.news_articles :
                        r[2] = news[p].reuters[k][2] => r[4] = SourceIdOf(store', "Reuters")]_vars

(***************************************************************************)
(* The zero-loss and zero-gain windows of the RSI, checked under           *)
(* SpecSeries.                                                             *)
(***************************************************************************)
\* The steps of the last rolling window of a series: the differences that count for
\* the RSI of its last row.
LastSteps(P) == {i \in (Len(P) - window_length + 1)..Len(P) : i > 1}

FlatTail(P) == Len(P) >= window_length /\ \A i \in LastSteps(P) : P[i] = P[i - 1]

FallingTail(P) == Len(P) >= window_length /\ \A i \in LastSteps(P) : P[i] < P[i - 1]

\* The sum of the losses in the last window: window_length times the loss of the last
\* row.
LastLoss(P) == Sum(losses(P), Len(P) - window_length + 1, Len(P))

\* C29: when analyze_crypto_bull_bear has run on a series whose price did not change
\* over the steps of the last window, or fell at every one of them, the divisor
\* loss + 1e-9 of the last row is not zero (the loss is not negative and the constant
\* added to it is positive), the RSI of the last row is 0, its signal is
\* 'Bullish Signal' and the verdict is the bullish one for the instrument.
C29_FlatOrFallingSeriesIsBullish ==
    (call.name = "analyze_crypto_bull_bear"
        /\ (FlatTail(Series(store)) \/ FallingTail(Series(store)))) =>
        /\ df # <<>>
        /\ df[Len(df)].RSI # NULL
        /\ LastLoss(Series(store)) >= 0
        /\ df[Len(df)].RSI.eps > 0
        /\ df[Len(df)].RSI.num = 0
        /\ df[Len(df)].signal = "Bullish Signal"
        /\ verdict = [outlook |-> "Bullish", crypto_id |-> Analysed]

\* The analysis has run on a series that rose and then stayed flat for a whole window:
\* gain and loss are both zero.
C29_Witness ==
    /\ call.name = "analyze_crypto_bull_bear"
    /\ FlatTail(Series(store))
    /\ Len(Series(store)) > window_length
    /\ Series(store)[1] # Series(store)[Len(Series(store))]
    /\ df[Len(df)].RSI.den = 0
    /\ verdict.outlook = "Bullish"

(***************************************************************************)
(* Properties of Crypto.insert_data_into_db, checked under SpecIngest.     *)
(***************************************************************************)
\* instruments, then observations, then metadata
Before(o1, o2) ==
    \/ o1 = "insert_cryptos" /\ o2 \in {"insert_market_data", "insert_metadata"}
    \/ o1 = "insert_market_data" /\ o2 = "insert_metadata"

\* The writers of a call that have returned.
Completed(c) == {c.log[k].op : k \in {j \in 1..Len(c.log) : c.log[j].result = "ok"}}

\* Every instrument of a batch that a writer of the call has committed has a row in the
\* writer's table.
CommittedRowsIn(db, c) ==
    \A k \in 1..Len(c.log) :
        c.log[k].result = "ok" =>
            \A i \in c.log[k].ids : \E r \in db[TableOf(c.log[k].op)] : r[1] = i

\* The instruments that the insert_cryptos of the call has written.
InstrumentsOf(c) ==
    UNION {c.log[k].ids : k \in {j \in 1..Len(c.log) : c.log[j].op = "insert_cryptos"}}

\* C30: in a call of insert_data_into_db,
\*  - a writer is called only for a list that is not empty, after every writer that
\*    comes before it in the order instruments, observations, metadata was skipped for
\*    an empty list or has returned, and before every writer that comes after it;
\*  - the file changes only at the commit of the writer that is running, and only in
\*    that writer's table; when observations or metadata are committed, the
\*    instruments that the call wrote before them have their rows in the file;
\*  - when a writer raises the call ends, the file stays as it is with the rows of
\*    the writers that returned before, and no further writer is called;
\*  - a step with an empty list leaves the file as it is;
\*  - a call that returns has called every writer whose list is not empty.
C30_IngestWritesInOrder ==
    [][/\ InIngest =>
           /\ (pc[Writer] = "idle" /\ pc'[Writer] = "connect") =>
                  /\ op'[Writer] \in call.given
                  /\ \A k \in 1..Len(call.log) :
                         call.log[k].result = "ok" /\ Before(call.log[k].op, op'[Writer])
                  /\ \A o \in call.given : Before(o, op'[Writer]) => o \in Completed(call)
           /\ store' # store =>
                  /\ pc[Writer] = "body" /\ result'[Writer] = "ok"
                  /\ \A o \in Ops \ {op[Writer]} : store'[TableOf(o)] = store[TableOf(o)]
                  /\ op[Writer] # "insert_cryptos" =>
                         \A i \in InstrumentsOf(call) : \E r \in store.cryptocurrency : r[1] = i
           /\ call'.outcome = "raised" =>
                  /\ store' = store
                  /\ txn'[Writer] = {}
                  /\ CommittedRowsIn(store', call')
           /\ (pc[Writer] = "idle" /\ call'.step > call.step) =>
                  /\ store' = store
                  /\ call'.log = call.log
           /\ call'.outcome = "returned" => Completed(call') = call.given
       /\ (call.name = "insert_data_into_db" /\ ~InIngest /\ call'.name = call.name
              /\ call'.outcome # "running") =>
           (pc'[Writer] = "idle" /\ store' = store)]_vars

\* The call has ended because the writer of the observations or of the metadata raised
\* after it had taken a tuple, and the instruments written before are in the file.
C30_Witness ==
    /\ call.name = "insert_data_into_db"
    /\ call.outcome = "raised"
    /\ Len(call.log) >= 2
    /\ call.log[1].op = "insert_cryptos"
    /\ call.log[1].ids # {}
    /\ call.log[Len(call.log)].ids # {}
    /\ call.step < Len(Steps)
    /\ \A i \in call.log[1].ids : \E r \in store.cryptocurrency : r[1] = i
====
